---- MODULE Spec2Model ----
(***************************************************************************)
(* Model of the news scraper in newspaper_sentiment_scraper.py: the        *)
(* relevance scorer, the field extractor with its archival fallback, and   *)
(* the aggregation done by main().                                        *)
(*                                                                         *)
(* Text is modelled as a sequence of one-character strings, so that        *)
(* lower(), strip(), substring tests and the regular expressions of the    *)
(* source are computed character by character.                             *)
(***************************************************************************)
EXTENDS Integers, Sequences, FiniteSets, TLC

(***************************************************************************)
(* Bounds of the model.                                                    *)
(***************************************************************************)
MaxTitleFrags == 3
MaxContentFrags == 1
MaxElems == 2
MaxPerScraper == 1
MaxLimit == 2
MaxPieces == 3
MaxCandidates == 3
MaxLinks == 2
MaxEntries == 2
MaxSnapshots == 2
MaxRetries == 4

(***************************************************************************)
(* Characters and the str methods the source uses.                         *)
(***************************************************************************)
\* None where the source holds an Optional[Dict]; a dict is a record.
None == [none |-> TRUE]
\* None where the source holds an Optional[str]; a str is a sequence of characters.
NoneStr == <<"None">>

\* bool(s) of an Optional[str]
truthy(s) == s # NoneStr /\ s # <<>>

UpperChars == <<"A","B","C","D","E","F","G","H","I","J","K","L","M","N","O","P","Q","R","S","T","U","V","W","X","Y","Z">>
LowerChars == <<"a","b","c","d","e","f","g","h","i","j","k","l","m","n","o","p","q","r","s","t","u","v","w","x","y","z">>
DigitChars == <<"0","1","2","3","4","5","6","7","8","9">>

Range(s) == {s[i] : i \in DOMAIN s}

\* \w of the re module: letters, digits and the underscore.
WordChars == Range(UpperChars) \cup Range(LowerChars) \cup Range(DigitChars) \cup {"_"}

\* \s of the re module, and the characters str.strip() removes.
SpaceChars == {" ", "\t", "\n", "\r"}

lower_char(c) ==
    IF c \in Range(UpperChars)
    THEN LowerChars[CHOOSE i \in DOMAIN UpperChars : UpperChars[i] = c]
    ELSE c

\* str.lower()
lower(s) == [i \in 1..Len(s) |-> lower_char(s[i])]

\* needle in hay
contains(hay, needle) ==
    \E i \in 0..(Len(hay) - Len(needle)) :
        SubSeq(hay, i + 1, i + Len(needle)) = needle

\* The regular expression assertion \b at the gap after the first p characters.
word_boundary(text, p) ==
    LET before == p >= 1 /\ text[p] \in WordChars
        after == p < Len(text) /\ text[p + 1] \in WordChars
    IN before # after

\* re.search(r'\b' + re.escape(keyword) + r'\b', text)
re_search_word(keyword, text) ==
    \E i \in 1..(Len(text) - Len(keyword) + 1) :
        /\ SubSeq(text, i, i + Len(keyword) - 1) = keyword
        /\ word_boundary(text, i - 1)
        /\ word_boundary(text, i + Len(keyword) - 1)

RECURSIVE lstrip(_)
lstrip(s) == IF s # <<>> /\ Head(s) \in SpaceChars THEN lstrip(Tail(s)) ELSE s

RECURSIVE rstrip(_)
rstrip(s) ==
    IF s # <<>> /\ s[Len(s)] \in SpaceChars THEN rstrip(SubSeq(s, 1, Len(s) - 1)) ELSE s

\* str.strip()
strip(s) == rstrip(lstrip(s))

\* sep.join(parts)
RECURSIVE join(_, _)
join(sep, parts) ==
    IF parts = <<>> THEN <<>>
    ELSE IF Len(parts) = 1 THEN parts[1]
    ELSE parts[1] \o sep \o join(sep, Tail(parts))

(***************************************************************************)
(* The relevance scorer.                                                   *)
(***************************************************************************)
KEYWORDS_high ==
    << <<"m","a","y","o","r">>,
       <<"m","a","y","o","r","a","l">>,
       <<"c","i","t","y"," ","c","o","u","n","c","i","l">>,
       <<"c","o","u","n","c","i","l","m","e","m","b","e","r">>,
       <<"c","o","u","n","c","i","l","w","o","m","a","n">>,
       <<"c","o","u","n","c","i","l","m","a","n">>,
       <<"s","e","a","t","t","l","e"," ","p","o","l","i","t","i","c","s">>,
       <<"e","l","e","c","t","i","o","n">>,
       <<"c","a","n","d","i","d","a","t","e">>,
       <<"m","u","n","i","c","i","p","a","l">>,
       <<"g","o","v","e","r","n","a","n","c","e">> >>

KEYWORDS_medium ==
    << <<"b","u","d","g","e","t">>,
       <<"h","o","u","s","i","n","g">>,
       <<"h","o","m","e","l","e","s","s">>,
       <<"h","o","m","e","l","e","s","s","n","e","s","s">>,
       <<"t","r","a","n","s","p","o","r","t","a","t","i","o","n">>,
       <<"z","o","n","i","n","g">>,
       <<"p","u","b","l","i","c"," ","s","a","f","e","t","y">>,
       <<"p","o","l","i","c","e">>,
       <<"S","P","D">>,
       <<"i","n","f","r","a","s","t","r","u","c","t","u","r","e">>,
       <<"t","a","x","e","s">> >>

KEYWORDS_low ==
    << <<"p","o","l","i","c","y">>,
       <<"d","e","v","e","l","o","p","m","e","n","t">>,
       <<"p","a","r","k","s">>,
       <<"f","i","r","e"," ","d","e","p","a","r","t","m","e","n","t">>,
       <<"r","e","f","e","r","e","n","d","u","m">>,
       <<"o","r","d","i","n","a","n","c","e">>,
       <<"l","e","g","i","s","l","a","t","i","o","n">>,
       <<"b","a","l","l","o","t"," ","m","e","a","s","u","r","e">> >>

\* RELEVANCE_KEYWORDS.items(), flattened in the order the two loops visit it.
RELEVANCE_KEYWORDS ==
    [i \in 1..Len(KEYWORDS_high) |-> [level |-> "high", keyword |-> KEYWORDS_high[i]]]
    \o [i \in 1..Len(KEYWORDS_medium) |-> [level |-> "medium", keyword |-> KEYWORDS_medium[i]]]
    \o [i \in 1..Len(KEYWORDS_low) |-> [level |-> "low", keyword |-> KEYWORDS_low[i]]]

weights == [high |-> 3, medium |-> 2, low |-> 1]

TitleSuffix == <<" ","(","t","i","t","l","e",")">>

(* Scores are counted in halves (score2 = 2 * score), so that the 50% title
   bonus stays an integer. *)
text_points(level) == 2 * weights[level]

title_points_full(level) == 2 * weights[level]
\* weights[weight_level] * 0.5
title_points(level) == weights[level]

\* The test of the first loop: re.search(pattern, text).
text_match(keyword, text) == re_search_word(lower(keyword), text)

\* The test of the second loop: keyword.lower() in title_lower.
title_match(keyword, title_lower) == contains(title_lower, lower(keyword))

\* The first loop, from keyword i on.
RECURSIVE text_loop(_, _, _)
text_loop(i, text, acc) ==
    IF i > Len(RELEVANCE_KEYWORDS) THEN acc
    ELSE LET kw == RELEVANCE_KEYWORDS[i]
         IN text_loop(i + 1, text,
                IF text_match(kw.keyword, text)
                THEN [matches |-> Append(acc.matches, kw.keyword),
                      score2 |-> acc.score2 + text_points(kw.level)]
                ELSE acc)

\* The second loop, from keyword i on.
RECURSIVE title_loop(_, _, _)
title_loop(i, title_lower, acc) ==
    IF i > Len(RELEVANCE_KEYWORDS) THEN acc
    ELSE LET kw == RELEVANCE_KEYWORDS[i]
         IN title_loop(i + 1, title_lower,
                IF title_match(kw.keyword, title_lower)
                THEN [matches |-> Append(acc.matches, kw.keyword \o TitleSuffix),
                      score2 |-> acc.score2 + title_points(kw.level)]
                ELSE acc)

\* A threshold on the score and the matches instead.
accept_over_threshold(score2, matches) == score2 >= 1 \/ Len(matches) > 0

\* is_relevant = True
accept_all(score2, matches) == TRUE

check_relevance_weighted(t, c) ==
    LET text == lower(t \o <<" ">> \o c)
        scanned == text_loop(1, text, [matches |-> <<>>, score2 |-> 0])
        bonus == title_loop(1, lower(t), scanned)
    IN [is_relevant |-> accept_all(bonus.score2, bonus.matches),
        matches |-> bonus.matches, score2 |-> bonus.score2]

(***************************************************************************)
(* Dicts.  A dict with string keys is a function on its keys.              *)
(***************************************************************************)
EmptyDict == [k \in {} |-> NoneStr]

\* d.get(k, default)
get(d, k, default) == IF k \in DOMAIN d THEN d[k] ELSE default

(***************************************************************************)
(* The archive lookup.  api is what the availability endpoint did: the     *)
(* request raised (kind "error"), resp.json() raised on a body that is no  *)
(* JSON (kind "not_json"), or resp.json() gave api.data.                   *)
(***************************************************************************)
\* A JSON value that is no object (a list): it has no .get().
JsonList == [json_type |-> "list"]

is_dict(v) == "json_type" \notin DOMAIN v

\* How a block of code ended: with an exception, or with a value.
Raised == [raised |-> TRUE, value |-> NoneStr]

Return(v) == [raised |-> FALSE, value |-> v]

\* The try block of get_wayback_url; falling out of it leads to return None.
wayback_try(original_url, api) ==
    IF api.kind # "json" THEN Raised
    ELSE IF ~is_dict(api.data) THEN Raised
    ELSE LET snapshots == get(api.data, "archived_snapshots", EmptyDict)
         IN IF ~is_dict(snapshots) THEN Raised
            ELSE LET closest == get(snapshots, "closest", EmptyDict)
                 IN IF ~is_dict(closest) THEN Raised
                    ELSE IF get(closest, "available", FALSE)
                         THEN IF "url" \in DOMAIN closest
                              THEN Return(closest["url"])
                              ELSE Raised
                         ELSE Return(NoneStr)

\* The handler of get_wayback_url, with the exception propagating instead.
wayback_reraise(r) == r

\* except Exception: log, then return None.
wayback_except(r) == IF r.raised THEN Return(NoneStr) ELSE r

\* How a call of get_wayback_url ends.
get_wayback_url_call(original_url, api) == wayback_except(wayback_try(original_url, api))

get_wayback_url(original_url, api) == get_wayback_url_call(original_url, api).value

\* timestamps of get_recent_wayback_urls, as numbers.
timestamps ==
    <<20250130, 20250101, 20241201, 20241101, 20241001, 20240901,
      20240801, 20240701, 20240601, 20240501, 20240401, 20240301>>

\* timestamps[:limit], for a limit that is not negative.
first_timestamps(limit) ==
    SubSeq(timestamps, 1, IF limit < Len(timestamps) THEN limit ELSE Len(timestamps))

(* The try block of get_recent_wayback_urls: apis[i] is the outcome of the
   i-th lookup.  lookups are the timestamps asked about. *)
recent_try(base_url, limit, apis) ==
    LET stamps == first_timestamps(limit)
        calls == [i \in DOMAIN stamps |-> get_wayback_url_call(base_url, apis[i])]
        failed == {i \in DOMAIN stamps : calls[i].raised}
        made == IF failed = {} THEN Len(stamps)
                ELSE CHOOSE i \in failed : \A j \in failed : i <= j
        found == SelectSeq([i \in 1..made |-> i],
                           LAMBDA i : ~calls[i].raised /\ truthy(calls[i].value))
    IN [raised |-> failed # {},
        value |-> [k \in DOMAIN found |-> calls[found[k]].value],
        lookups |-> SubSeq(stamps, 1, made)]

\* How a call of get_recent_wayback_urls ends: its handler returns [].
get_recent_wayback_urls_call(base_url, limit, apis) ==
    LET r == recent_try(base_url, limit, apis)
    IN IF r.raised THEN [raised |-> FALSE, value |-> <<>>, lookups |-> r.lookups]
       ELSE r

get_recent_wayback_urls(base_url, limit, apis) ==
    get_recent_wayback_urls_call(base_url, limit, apis).value

(***************************************************************************)
(* The field extractor.  A soup maps every selector to the elements        *)
(* soup.select(selector) returns, in document order; an element has its    *)
(* text and its content attribute (NoneStr when it has none).              *)
(***************************************************************************)
MetaSelector == "meta[property=\"article:published_time\"]"

\* A selector soup.select() rejects with an exception.
MalformedSelector == "h1["

\* selector.startswith('meta')
startswith_meta(selector) == selector = MetaSelector

select_raises(selector) == selector = MalformedSelector

\* elements[0].get('content', '')
meta_content(elements) ==
    IF elements[1].content = NoneStr THEN <<>> ELSE elements[1].content

\* ' '.join([elem.get_text().strip() for elem in elements])
joined_text(elements) ==
    join(<<" ">>, [i \in 1..Len(elements) |-> strip(elements[i].text)])

RECURSIVE extract_last_match(_, _)
extract_last_match(soup, selectors) ==
    IF selectors = <<>> THEN <<>>
    ELSE LET selector == selectors[Len(selectors)]
             rest == SubSeq(selectors, 1, Len(selectors) - 1)
         IN IF select_raises(selector) \/ soup[selector] = <<>>
            THEN extract_last_match(soup, rest)
            ELSE IF startswith_meta(selector)
                 THEN meta_content(soup[selector])
                 ELSE joined_text(soup[selector])

RECURSIVE extract_with_fallback(_, _)
extract_with_fallback(soup, selectors) ==
    IF selectors = <<>> THEN <<>>
    ELSE LET selector == Head(selectors)
         IN IF select_raises(selector)
            THEN extract_with_fallback(soup, Tail(selectors))
            ELSE IF soup[selector] # <<>>
                 THEN IF startswith_meta(selector)
                      THEN meta_content(soup[selector])
                      ELSE joined_text(soup[selector])
                 ELSE extract_with_fallback(soup, Tail(selectors))

\* The three calls of _extract_with_fallback on one soup.
extract_fields(soup, selectors) ==
    [title |-> extract_with_fallback(soup, get(selectors, "title", <<>>)),
     content |-> extract_with_fallback(soup, get(selectors, "content", <<>>)),
     date |-> extract_with_fallback(soup, get(selectors, "date", <<>>))]

NoTitle == <<"N","o"," ","t","i","t","l","e">>

\* The dict both extraction paths build from the extracted fields.
fields_dict_keep_title(f) ==
    [title |-> f.title,
     content |-> IF f.content # <<>> THEN f.content ELSE f.title,
     publish_date |-> f.date]

fields_dict(f) ==
    [title |-> IF f.title # <<>> THEN f.title ELSE NoTitle,
     content |-> IF f.content # <<>> THEN f.content ELSE f.title,
     publish_date |-> f.date]

no_content_either(f) == f.title = <<>> \/ f.content = <<>>
\* not title and not content
no_content(f) == f.title = <<>> /\ f.content = <<>>

\* response.raise_for_status() raises
raise_for_status(response) == response.status_code >= 400

Call(op, url) == [op |-> op, url |-> url]

NoFields == [title |-> <<>>, content |-> <<>>, date |-> <<>>]

(* _try_wayback_extraction: api is the archive lookup's outcome, snap the
   response to the fetch of the snapshot.  Besides the value returned, the
   result names the requests made and the local variables at the return. *)
try_wayback_extraction(url, selectors, api, snap) ==
    LET wayback_url == get_wayback_url(url, api)
        lookup == <<Call("get_wayback_url", url)>>
    IN IF truthy(wayback_url)
       THEN LET calls == Append(lookup, Call("session.get", wayback_url))
            IN IF snap.error
               THEN [result |-> None, calls |-> calls, wayback_url |-> wayback_url,
                     fields |-> NoFields, source |-> "none"]
               ELSE LET f == extract_fields(snap.soup, selectors)
                    IN [result |-> IF ~no_content(f) THEN fields_dict(f) ELSE None,
                        calls |-> calls, wayback_url |-> wayback_url,
                        fields |-> f, source |-> "wayback"]
       ELSE [result |-> None, calls |-> lookup, wayback_url |-> wayback_url,
             fields |-> NoFields, source |-> "none"]

no_wayback_extraction(url, selectors, api, snap) ==
    [result |-> None, calls |-> <<>>, wayback_url |-> NoneStr,
     fields |-> NoFields, source |-> "none"]

\* The except branch of extract_article_content.
on_fetch_failure(url, selectors, api, snap) ==
    try_wayback_extraction(url, selectors, api, snap)

(* extract_article_content: live is the response to the fetch of url.
   source tells which document the fields were extracted from: "live",
   "wayback", or "none" when no document was fetched. *)
extract_article_content(url, selectors, live, api, snap) ==
    LET first == <<Call("session.get", url)>>
    IN IF live.error \/ raise_for_status(live)
       THEN LET wb == on_fetch_failure(url, selectors, api, snap)
            IN [result |-> wb.result, calls |-> first \o wb.calls,
                wayback_url |-> wb.wayback_url, fields |-> wb.fields,
                source |-> wb.source]
       ELSE LET f == extract_fields(live.soup, selectors)
            IN [result |-> IF no_content(f) THEN None ELSE fields_dict(f),
                calls |-> first, wayback_url |-> NoneStr, fields |-> f,
                source |-> "live"]

(***************************************************************************)
(* ArticleValidator and process_article_data.                              *)
(***************************************************************************)
Letters == Range(UpperChars) \cup Range(LowerChars)

\* scheme_chars of urllib.parse
SchemeChars == Letters \cup Range(DigitChars) \cup {"+", "-", "."}

\* The least index of s whose character is in S, Len(s) + 1 when there is none.
first_in(s, S) ==
    IF \E i \in DOMAIN s : s[i] \in S
    THEN CHOOSE i \in DOMAIN s : s[i] \in S /\ \A j \in 1..(i - 1) : s[j] \notin S
    ELSE Len(s) + 1

\* urlparse(url): the scheme before the first ':' and the netloc after '//'.
urlparse(url) ==
    LET colon == first_in(url, {":"})
        has_scheme == /\ colon > 1
                      /\ colon <= Len(url)
                      /\ url[1] \in Letters
                      /\ \A k \in 1..(colon - 1) : url[k] \in SchemeChars
        rest == IF has_scheme THEN SubSeq(url, colon + 1, Len(url)) ELSE url
        has_netloc == Len(rest) >= 2 /\ SubSeq(rest, 1, 2) = <<"/", "/">>
        after == SubSeq(rest, 3, Len(rest))
    IN [scheme |-> IF has_scheme THEN lower(SubSeq(url, 1, colon - 1)) ELSE <<>>,
        netloc |-> IF has_netloc
                   THEN SubSeq(after, 1, first_in(after, {"/", "?", "#"}) - 1)
                   ELSE <<>>]

\* all([result.scheme, result.netloc])
is_valid_url(url) ==
    LET result == urlparse(url)
    IN result.scheme # <<>> /\ result.netloc # <<>>

\* re.sub(r'\s+', ' ', s): every run of whitespace becomes one blank.
collapse_whitespace(s) ==
    LET blanked == [i \in 1..Len(s) |-> IF s[i] \in SpaceChars THEN " " ELSE s[i]]
        kept == SelectSeq([i \in 1..Len(s) |-> i],
                          LAMBDA i : s[i] \notin SpaceChars \/ i = 1 \/ s[i - 1] \notin SpaceChars)
    IN [k \in 1..Len(kept) |-> blanked[kept[k]]]

Advertisement == <<"a","d","v","e","r","t","i","s","e","m","e","n","t">>

\* Advertisement matches at index i of s, in any letter case.
advertisement_at(s, i) ==
    /\ i + Len(Advertisement) - 1 <= Len(s)
    /\ lower(SubSeq(s, i, i + Len(Advertisement) - 1)) = Advertisement

\* re.sub(r'Advertisement\s*', '', s, flags=re.IGNORECASE): the leftmost match
\* and the whitespace after it go, and the scan goes on behind them.
RECURSIVE remove_advertisement(_)
remove_advertisement(s) ==
    IF \E i \in DOMAIN s : advertisement_at(s, i)
    THEN LET p == CHOOSE i \in DOMAIN s :
                    advertisement_at(s, i) /\ \A j \in 1..(i - 1) : ~advertisement_at(s, j)
         IN SubSeq(s, 1, p - 1)
            \o remove_advertisement(lstrip(SubSeq(s, p + Len(Advertisement), Len(s))))
    ELSE s

clean_text(text) ==
    IF text = <<>> THEN <<>>
    ELSE remove_advertisement(collapse_whitespace(strip(text)))

\* Both patterns and the fall-through return date_str itself.
normalize_date(date_str) ==
    IF ~truthy(date_str) THEN NoneStr ELSE date_str

\* process_article_data(raw_data), called at time now.
process_article_data(raw_data, now) ==
    IF ~({"url", "title", "content"} \subseteq DOMAIN raw_data) THEN None
    ELSE IF ~is_valid_url(raw_data.url) THEN None
    ELSE [url |-> raw_data.url,
          source |-> get(raw_data, "source", "Unknown"),
          title |-> clean_text(raw_data.title),
          content |-> clean_text(raw_data.content),
          publish_date |-> normalize_date(get(raw_data, "publish_date", NoneStr)),
          matched_keywords |-> get(raw_data, "matched_keywords", <<>>),
          relevance_score2 |-> get(raw_data, "relevance_score2", 0),
          scraped_at |-> now,
          content_length |-> Len(get(raw_data, "content", <<>>))]

\* The loop of main over one scraper's results.
RECURSIVE processed_results(_, _)
processed_results(results, now) ==
    IF results = <<>> THEN <<>>
    ELSE LET processed == process_article_data(Head(results), now)
         IN (IF processed # None THEN <<processed>> ELSE <<>>)
            \o processed_results(Tail(results), now)

(***************************************************************************)
(* The data frame of main: a sequence of rows.                             *)
(***************************************************************************)
\* df.drop_duplicates(subset=[key], keep='last')
RECURSIVE drop_duplicates_keep_last(_, _)
drop_duplicates_keep_last(rows, key) ==
    IF rows = <<>> THEN <<>>
    ELSE IF \E j \in 2..Len(rows) : rows[j][key] = rows[1][key]
         THEN drop_duplicates_keep_last(Tail(rows), key)
         ELSE <<Head(rows)>> \o drop_duplicates_keep_last(Tail(rows), key)

\* The rows from i on whose key is not in seen, each key kept once.
RECURSIVE keep_first(_, _, _, _)
keep_first(rows, key, i, seen) ==
    IF i > Len(rows) THEN <<>>
    ELSE IF rows[i][key] \in seen
         THEN keep_first(rows, key, i + 1, seen)
         ELSE <<rows[i]>> \o keep_first(rows, key, i + 1, seen \cup {rows[i][key]})

\* df.drop_duplicates(subset=[key], keep='first')
drop_duplicates(rows, key) == keep_first(rows, key, 1, {})

\* The orders of the rows of I in which relevance_score never increases.
RECURSIVE descending_orders(_, _)
descending_orders(rows, I) ==
    IF I = {} THEN {<<>>}
    ELSE UNION { { <<rows[i]>> \o rest : rest \in descending_orders(rows, I \ {i}) }
                 : i \in {j \in I : \A k \in I :
                            rows[j].relevance_score2 >= rows[k].relevance_score2} }

(* df.sort_values('relevance_score', ascending=False): the default
   kind='quicksort' is not a stable sort, so rows with equal scores come out
   in an order the code does not determine. *)
sort_values(rows) == descending_orders(rows, DOMAIN rows)

(***************************************************************************)
(* Inputs of the scorer: titles and contents made of a few fragments       *)
(* joined by single spaces.                                                *)
(***************************************************************************)
TitleFragments ==
    { <<"N","e","w">>,
      <<"M","a","y","o","r">>,
      <<"E","l","e","c","t","e","d">>,
      <<"p","o","l","i","c","y","m","a","k","i","n","g">> }

ContentFragments ==
    { <<"p","o","l","i","c","y","m","a","k","i","n","g">>,
      <<"C","i","t","y"," ","C","o","u","n","c","i","l"," ","b","u","d","g","e","t">>,
      <<"S","P","D">> }

SeqsUpTo(S, n) == UNION {[1..k -> S] : k \in 0..n}

ScorerTitles == {join(<<" ">>, ws) : ws \in SeqsUpTo(TitleFragments, MaxTitleFrags)}
ScorerContents == {join(<<" ">>, ws) : ws \in SeqsUpTo(ContentFragments, MaxContentFrags)}

(***************************************************************************)
(* Inputs of the extractor.                                                *)
(***************************************************************************)
\* The SelectorSet of SeattleTimesScraper.scrape.
SeattleTimesSelectors ==
    [title |-> <<"h1", ".headline", ".entry-title">>,
     content |-> <<"article p", ".article-body p", "p">>,
     date |-> <<MetaSelector, "time">>]

\* A SelectorSet a caller hands in: a selector that does not parse, then
\* .headline before h1.
HeadlineFirstSelectors ==
    [title |-> <<MalformedSelector, ".headline", "h1">>,
     content |-> <<"article p">>,
     date |-> <<MetaSelector>>]

ExtractSelectorSets == {SeattleTimesSelectors, HeadlineFirstSelectors}

AllSelectors ==
    UNION {Range(ss.title) \cup Range(ss.content) \cup Range(ss.date) : ss \in ExtractSelectorSets}

\* The selectors that match something in the documents drawn.
PopulatedSelectors == {"h1", ".headline", "article p", MetaSelector}

Elements ==
    { [text |-> <<"H","e","a","d">>, content |-> <<"2","0","2","5","-","0","1","-","3","0">>],
      [text |-> <<" ","L","e","a","d","\n">>, content |-> NoneStr],
      [text |-> <<" ">>, content |-> <<>>] }

\* The assignments of at most n elements in all to the selectors of S.
RECURSIVE SoupsOver(_, _)
SoupsOver(S, n) ==
    IF S = {} THEN {EmptyDict}
    ELSE LET sel == CHOOSE x \in S : TRUE
         IN UNION { { (sel :> es) @@ rest : rest \in SoupsOver(S \ {sel}, n - Len(es)) }
                    : es \in SeqsUpTo(Elements, n) }

Soups ==
    { [sel \in AllSelectors |-> IF sel \in PopulatedSelectors THEN d[sel] ELSE <<>>]
      : d \in SoupsOver(PopulatedSelectors, MaxElems) }

EmptySoup == [sel \in AllSelectors |-> <<>>]

\* session.get raised: a transport error or a timeout.
ErrorResponse == [error |-> TRUE]

Response(status_code, soup) == [error |-> FALSE, status_code |-> status_code, soup |-> soup]

LiveResponses ==
    {ErrorResponse, Response(404, EmptySoup), Response(503, EmptySoup)}
    \cup {Response(200, d) : d \in Soups}

SnapshotResponses ==
    {ErrorResponse, Response(404, EmptySoup)} \cup {Response(200, d) : d \in Soups}

ArchivePrefix == <<"h","t","t","p",":","/","/","w","e","b",".","a","r","c","h","i","v","e",".","o","r","g","/","w","e","b","/","2","0","2","5","/">>

\* An older snapshot of the same page.
OlderArchivePrefix == <<"h","t","t","p",":","/","/","w","e","b",".","a","r","c","h","i","v","e",".","o","r","g","/","w","e","b","/","2","0","2","4","/">>

\* requests.get raised: a transport error or a timeout.
ApiError == [kind |-> "error"]

\* resp.json() raised: the body is no JSON.
ApiNotJson == [kind |-> "not_json"]

ApiJson(data) == [kind |-> "json", data |-> data]

Closest(available, url) ==
    [archived_snapshots |-> [closest |-> [available |-> available, url |-> url]]]

\* What the availability endpoint can answer for url.
WaybackApiOutcomes(url) ==
    { ApiError,
      ApiNotJson,
      ApiJson(JsonList),
      ApiJson(EmptyDict),
      ApiJson([archived_snapshots |-> JsonList]),
      ApiJson([archived_snapshots |-> EmptyDict]),
      ApiJson([archived_snapshots |-> [closest |-> JsonList]]),
      ApiJson([archived_snapshots |-> [closest |-> [available |-> TRUE]]]),
      ApiJson(Closest(FALSE, ArchivePrefix \o url)),
      ApiJson(Closest(TRUE, ArchivePrefix \o url)),
      ApiJson(Closest(TRUE, OlderArchivePrefix \o url)) }

ExtractUrls ==
    { <<"h","t","t","p","s",":","/","/","a",".","c","o","m","/","1">>,
      <<"h","t","t","p","s",":","/","/","b",".","o","r","g","/","3">> }

(***************************************************************************)
(* Inputs of main: what each scraper's scrape() can return.                *)
(***************************************************************************)
\* ScrapingConfig.min_content_length
min_content_length == 100

\* scrapers, in the order main runs them.
Scrapers ==
    <<"StrangerScraper", "CHSScraper", "RSSFeedScraper", "WebScrapingScraper",
      "SimpleSeattleTimesScraper">>

\* _is_relevant: the article with its matches and score stored in it.
is_relevant(article_data) ==
    LET r == check_relevance_weighted(get(article_data, "title", <<>>),
                                      get(article_data, "content", <<>>))
    IN [matched_keywords |-> r.matches, relevance_score2 |-> r.score2] @@ article_data

\* What _is_relevant returns.
is_relevant_returns(article_data) ==
    check_relevance_weighted(get(article_data, "title", <<>>),
                             get(article_data, "content", <<>>)).is_relevant

\* A record as the scrapers append it to results.
Scraped(source, url, t, c) ==
    [url |-> url, source |-> source]
    @@ is_relevant([title |-> t, content |-> c, publish_date |-> <<>>])

\* Content that passes len(content) > min_content_length.
Filler == [i \in 1..min_content_length |-> "x"]

StrangerPool ==
    { Scraped("The Stranger",
              <<"h","t","t","p","s",":","/","/","a",".","c","o","m","/","1">>,
              <<"A">>,
              <<"m","a","y","o","r"," ","b","u","d","g","e","t"," ">> \o Filler) }

CHSPool ==
    { Scraped("Capitol Hill Seattle",
              <<"h","t","t","p","s",":","/","/","a",".","c","o","m","/","2">>,
              <<"B">>,
              <<"h","o","u","s","i","n","g"," ">> \o Filler) }

\* Feed entries: one complete, one with neither title nor summary, one with no link.
RSSPool ==
    { Scraped("KING 5",
              <<"h","t","t","p","s",":","/","/","b",".","o","r","g","/","3">>,
              <<"C">>,
              <<"p","o","l","i","c","e"," ","e","l","e","c","t","i","o","n">>),
      Scraped("KING 5",
              <<"h","t","t","p","s",":","/","/","b",".","o","r","g","/","4">>,
              <<>>,
              <<>>),
      Scraped("KING 5", <<>>, <<"E">>, <<"t","a","x","e","s">>) }

\* Pages: one at the url of the Stranger article, one whose h1 is an ad label.
WebPool ==
    { Scraped("KIRO 7",
              <<"h","t","t","p","s",":","/","/","a",".","c","o","m","/","1">>,
              <<"D">>,
              <<"p","a","r","k","s">>),
      Scraped("KIRO 7",
              <<"h","t","t","p","s",":","/","/","b",".","o","r","g","/","5">>,
              <<"A","d","v","e","r","t","i","s","e","m","e","n","t">>,
              <<"p","a","r","k","s">>) }

\* Feed entries: one with the CHS title and a trailing blank, one the KING 5 entry.
SimplePool ==
    { Scraped("Seattle Times (RSS)",
              <<"h","t","t","p","s",":","/","/","b",".","o","r","g","/","6">>,
              <<"B"," ">>,
              <<"t","a","x","e","s">>),
      Scraped("Seattle Times (RSS)",
              <<"h","t","t","p","s",":","/","/","b",".","o","r","g","/","3">>,
              <<"C">>,
              <<"p","o","l","i","c","e"," ","e","l","e","c","t","i","o","n">>) }

\* The sequences of at most n elements of S, none twice.
InjSeqs(S, n) ==
    {q \in SeqsUpTo(S, n) : \A a, b \in DOMAIN q : a # b => q[a] # q[b]}

\* The results lists scrape() can return, per scraper.
ScrapeResults ==
    [StrangerScraper |-> InjSeqs(StrangerPool, MaxPerScraper),
     CHSScraper |-> InjSeqs(CHSPool, MaxPerScraper),
     RSSFeedScraper |-> InjSeqs(RSSPool, MaxPerScraper),
     WebScrapingScraper |-> InjSeqs(WebPool, MaxPerScraper),
     SimpleSeattleTimesScraper |-> InjSeqs(SimplePool, MaxPerScraper)]

(***************************************************************************)
(* The crawlers.  scrape() is computed from the configuration and from a   *)
(* world w that says what the sites answer; besides results it gives the   *)
(* trace of the requests and pauses made, in order.                        *)
(***************************************************************************)
\* ScrapingConfig.delay_between_requests
delay_between_requests == 1

\* The configurations load_config can return: the caps are small here.
Configs ==
    { [max_articles_per_source |-> 1, use_wayback_fallback |-> TRUE, max_wayback_attempts |-> 1],
      [max_articles_per_source |-> 1, use_wayback_fallback |-> TRUE, max_wayback_attempts |-> 2],
      [max_articles_per_source |-> 2, use_wayback_fallback |-> FALSE, max_wayback_attempts |-> 2] }

\* urls[:n]
head_of(urls, n) == SubSeq(urls, 1, IF n < Len(urls) THEN n ELSE Len(urls))

\* The events of a trace.
Fetch(url) == Call("session.get", url)

Parse(url) == Call("feedparser.parse", url)

Extract(url, from) == [op |-> "extract_article_content", url |-> url, from |-> from]

Sleep == [op |-> "time.sleep", secs |-> delay_between_requests]

\* The article with the long text, and what stands on the page of each article.
LongArticleUrl == <<"h","t","t","p","s",":","/","/","a",".","c","o","m","/","1">>

ArticleText(url) ==
    IF url = LongArticleUrl
    THEN [title |-> <<"M","a","y","o","r">>,
          body |-> <<"m","a","y","o","r"," ","b","u","d","g","e","t"," ">> \o Filler]
    ELSE [title |-> <<"T","a","x","e","s">>, body |-> <<"t","a","x","e","s">>]

StrangerSelectors ==
    [title |-> <<"h1", ".headline", ".entry-title">>,
     content |-> <<"article p", ".article-body p", "p">>,
     date |-> <<"time", ".date">>]

CHSSelectors ==
    [title |-> <<"h1", ".entry-title", ".headline">>,
     content |-> <<".entry-content p", "article p", "p">>,
     date |-> <<"time", ".date", ".published">>]

\* news_sites of WebScrapingScraper
news_sites ==
    << [name |-> "KIRO 7",
        url |-> <<"h","t","t","p","s",":","/","/","w","w","w",".","k","i","r","o","7",".","c","o","m","/","n","e","w","s","/","l","o","c","a","l","/">>,
        selectors |-> [title |-> <<"h1", ".headline", ".story-headline", "h2", ".title">>,
                       content |-> <<".story-body p", "article p", ".content p", "p">>,
                       date |-> <<"time", ".date", ".story-date", ".published">>]],
       [name |-> "KOMO News",
        url |-> <<"h","t","t","p","s",":","/","/","k","o","m","o","n","e","w","s",".","c","o","m","/","n","e","w","s","/","l","o","c","a","l">>,
        selectors |-> [title |-> <<"h1", ".headline", ".story-title", "h2", ".title">>,
                       content |-> <<".story-content p", "article p", ".content p", "p">>,
                       date |-> <<"time", ".date", ".story-date", ".published">>]],
       [name |-> "KUOW",
        url |-> <<"h","t","t","p","s",":","/","/","w","w","w",".","k","u","o","w",".","o","r","g","/","n","e","w","s">>,
        selectors |-> [title |-> <<"h1", ".headline", ".story-title", "h2", ".title">>,
                       content |-> <<".story-text p", "article p", ".content p", "p">>,
                       date |-> <<"time", ".date", ".story-date", ".published">>]],
       [name |-> "Seattle Times (Web)",
        url |-> <<"h","t","t","p","s",":","/","/","w","w","w",".","s","e","a","t","t","l","e","t","i","m","e","s",".","c","o","m","/","s","e","a","t","t","l","e","-","n","e","w","s","/">>,
        selectors |-> [title |-> <<"h1", ".headline", ".entry-title", "h2", ".title">>,
                       content |-> <<"article p", ".article-body p", ".content p", "p">>,
                       date |-> <<"time", ".date", ".published", MetaSelector>>]] >>

CrawlSelectorSets ==
    {SeattleTimesSelectors, StrangerSelectors, CHSSelectors}
    \cup {news_sites[i].selectors : i \in DOMAIN news_sites}

CrawlSelectors ==
    UNION {Range(ss.title) \cup Range(ss.content) \cup Range(ss.date) : ss \in CrawlSelectorSets}

\* The document of an article page: an h1 with the title, a p with the body.
ArticleSoup(url) ==
    [sel \in CrawlSelectors |->
        IF sel = "h1" THEN <<[text |-> ArticleText(url).title, content |-> NoneStr]>>
        ELSE IF sel = "p" THEN <<[text |-> ArticleText(url).body, content |-> NoneStr]>>
        ELSE <<>>]

(* How a page is reached: "live" answers the fetch, "archived" fails the
   fetch and has a snapshot with the same document, "gone" fails the fetch
   and has no snapshot. *)
PageStates == {"live", "archived", "gone"}

\* self.extract_article_content(url, selectors) in a world where url is in state.
extracted(url, selectors, state) ==
    extract_article_content(
        url, selectors,
        IF state = "live" THEN Response(200, ArticleSoup(url)) ELSE ErrorResponse,
        IF state = "archived" THEN ApiJson(Closest(TRUE, ArchivePrefix \o url)) ELSE ApiError,
        IF state = "archived" THEN Response(200, ArticleSoup(url)) ELSE ErrorResponse)

\* article_data['url'] = url; article_data['source'] = source; after _is_relevant.
labelled(article_data, url, source) ==
    [url |-> url, source |-> source] @@ is_relevant(article_data)

NoWork == [results |-> <<>>, trace |-> <<>>]

\* Two pieces of work, one after the other.
work_then(a, b) == [results |-> a.results \o b.results, trace |-> a.trace \o b.trace]

\* Requests that emit no record.
requests(trace) == [results |-> <<>>, trace |-> trace]

\* time.sleep(self.config.delay_between_requests) after the work here.
paused(here) == [results |-> here.results, trace |-> here.trace \o <<Sleep>>]

(* One call of extract_article_content(url, selectors) that gave ex, with the
   record the crawler builds from it. *)
extraction(ex, url, source) ==
    [results |-> IF ex.result # None /\ is_relevant_returns(ex.result)
                 THEN <<labelled(ex.result, url, source)>>
                 ELSE <<>>,
     trace |-> <<Extract(url, ex.source)>>]

\* len(article_data.get('content', '')) > self.config.min_content_length, where it is asked.
long_enough(here, check_length) ==
    IF check_length /\ here.results # <<>>
       /\ ~(Len(here.results[1].content) > min_content_length)
    THEN requests(here.trace)
    ELSE here

(* The loop over the article urls in SeattleTimesScraper, StrangerScraper and
   CHSScraper: extract, keep what is relevant (and long enough where
   check_length is set), pause. *)
RECURSIVE article_loop(_, _, _, _, _)
article_loop(urls, selectors, source, check_length, pages) ==
    IF urls = <<>> THEN NoWork
    ELSE work_then(
             paused(long_enough(
                 extraction(extracted(Head(urls), selectors, pages[Head(urls)]),
                            Head(urls), source),
                 check_length)),
             article_loop(Tail(urls), selectors, source, check_length, pages))

\* base_urls of SeattleTimesScraper.scrape
base_urls ==
    << <<"h","t","t","p","s",":","/","/","w","w","w",".","s","e","a","t","t","l","e","t","i","m","e","s",".","c","o","m","/","s","e","a","t","t","l","e","-","n","e","w","s","/">>,
       <<"h","t","t","p","s",":","/","/","w","w","w",".","s","e","a","t","t","l","e","t","i","m","e","s",".","c","o","m","/","p","o","l","i","t","i","c","s","/">> >>

(* SeattleTimesScraper.scrape: w.links[b] is what _find_article_urls gives
   for base_urls[b]. *)
seattle_times_base(b, cfg, w) ==
    work_then(requests(<<Call("_find_article_urls", base_urls[b])>>),
              article_loop(head_of(w.links[b], cfg.max_articles_per_source),
                           SeattleTimesSelectors, "Seattle Times", FALSE, w.pages))

seattle_times_scrape(cfg, w) ==
    work_then(seattle_times_base(1, cfg, w), seattle_times_base(2, cfg, w))

\* section_urls of StrangerScraper.scrape
section_urls ==
    << <<"h","t","t","p","s",":","/","/","w","w","w",".","t","h","e","s","t","r","a","n","g","e","r",".","c","o","m","/","n","e","w","s","/">>,
       <<"h","t","t","p","s",":","/","/","w","w","w",".","t","h","e","s","t","r","a","n","g","e","r",".","c","o","m","/","s","t","r","a","n","g","e","r","-","e","l","e","c","t","i","o","n","-","c","o","n","t","r","o","l","-","b","o","a","r","d","/">> >>

(* StrangerScraper.scrape: w.links[s] is what _find_all_stranger_articles
   gives for section_urls[s], w.order is list(article_links). *)
stranger_scrape(cfg, w) ==
    work_then(requests(<<Call("_find_all_stranger_articles", section_urls[1]), Sleep,
                         Call("_find_all_stranger_articles", section_urls[2]), Sleep>>),
              article_loop(head_of(w.order, cfg.max_articles_per_source),
                           StrangerSelectors, "The Stranger", TRUE, w.pages))

\* search_url of CHSScraper.scrape("mayor")
search_url == <<"h","t","t","p","s",":","/","/","w","w","w",".","c","a","p","i","t","o","l","h","i","l","l","s","e","a","t","t","l","e",".","c","o","m","/","?","s","=","m","a","y","o","r">>

\* CHSScraper.scrape: w.links[1] is what _find_chs_articles gives.
chs_scrape(cfg, w) ==
    work_then(requests(<<Call("_find_chs_articles", search_url)>>),
              article_loop(head_of(w.links[1], cfg.max_articles_per_source),
                           CHSSelectors, "Capitol Hill Seattle", TRUE, w.pages))

\* One article of _scrape_site: ex is what extract_article_content gave for url.
site_article(ex, url) ==
    [results |-> IF ex.result # None THEN <<[url |-> url] @@ ex.result>> ELSE <<>>,
     trace |-> <<Extract(url, ex.source)>>]

\* The loop of WebScrapingScraper._scrape_site over the article urls.
RECURSIVE site_loop(_, _, _)
site_loop(urls, selectors, pages) ==
    IF urls = <<>> THEN NoWork
    ELSE work_then(
             paused(site_article(extracted(Head(urls), selectors, pages[Head(urls)]),
                                 Head(urls))),
             site_loop(Tail(urls), selectors, pages))

(* WebScrapingScraper._scrape_site(news_sites[s]): w.links[s] is
   list(article_urls), empty when the fetch of the page raised; results are
   the articles it returns. *)
scrape_site(s, cfg, w) ==
    work_then(requests(<<Fetch(news_sites[s].url)>>),
              site_loop(head_of(w.links[s], cfg.max_articles_per_source),
                        news_sites[s].selectors, w.pages))

\* A record kept, before those kept from the rest of a loop that tracks seen_urls.
kept_then(result, rest) ==
    [results |-> <<result>> \o rest.results, seen_urls |-> rest.seen_urls]

(* The loop of WebScrapingScraper.scrape over the articles of one site:
   count is the number of results of this site so far. *)
RECURSIVE web_articles_loop(_, _, _, _, _)
web_article_kept(result, articles, name, seen_urls, count, cfg) ==
    IF count + 1 >= cfg.max_articles_per_source
    THEN [results |-> <<result>>, seen_urls |-> seen_urls \cup {result.url}]
    ELSE kept_then(result,
                   web_articles_loop(Tail(articles), name, seen_urls \cup {result.url},
                                     count + 1, cfg))

web_articles_loop(articles, name, seen_urls, count, cfg) ==
    IF articles = <<>> THEN [results |-> <<>>, seen_urls |-> seen_urls]
    ELSE IF Head(articles).url \in seen_urls \/ ~is_relevant_returns(Head(articles))
         THEN web_articles_loop(Tail(articles), name, seen_urls, count, cfg)
         ELSE web_article_kept([source |-> name] @@ is_relevant(Head(articles)),
                               articles, name, seen_urls, count, cfg)

\* The loop of WebScrapingScraper.scrape over news_sites, from the s-th on.
RECURSIVE web_sites_loop(_, _, _, _)
web_site_kept(kept, trace, s, cfg, w) ==
    work_then([results |-> kept.results, trace |-> trace \o <<Sleep>>],
              web_sites_loop(s + 1, kept.seen_urls, cfg, w))

web_site_scraped(site, s, seen_urls, cfg, w) ==
    web_site_kept(web_articles_loop(site.results, news_sites[s].name, seen_urls, 0, cfg),
                  site.trace, s, cfg, w)

web_sites_loop(s, seen_urls, cfg, w) ==
    IF s > Len(news_sites) THEN NoWork
    ELSE web_site_scraped(scrape_site(s, cfg, w), s, seen_urls, cfg, w)

web_scrape(cfg, w) == web_sites_loop(1, {}, cfg, w)

\* rss_feeds of RSSFeedScraper
rss_feeds ==
    << [rss_url |-> <<"h","t","t","p","s",":","/","/","w","w","w",".","s","e","a","t","t","l","e","t","i","m","e","s",".","c","o","m","/","s","e","a","t","t","l","e","-","n","e","w","s","/","f","e","e","d","/">>,
        source_name |-> "Seattle Times RSS"],
       [rss_url |-> <<"h","t","t","p","s",":","/","/","w","w","w",".","k","i","n","g","5",".","c","o","m","/","f","e","e","d","s","/","s","y","n","d","i","c","a","t","i","o","n","/","r","s","s","/","n","e","w","s","/","l","o","c","a","l">>,
        source_name |-> "KING 5"] >>

\* summary of an entry: entry['content'][0].get('value', '') when it has no summary.
entry_summary(entry) ==
    IF ~truthy(get(entry, "summary", <<>>)) /\ "content" \in DOMAIN entry
    THEN get(entry["content"][1], "value", <<>>)
    ELSE get(entry, "summary", <<>>)

\* article_data of an entry, before _is_relevant.
entry_data(entry, summary) ==
    [title |-> get(entry, "title", <<>>),
     content |-> IF truthy(summary) THEN summary ELSE get(entry, "title", <<>>),
     publish_date |-> get(entry, "published", <<>>)]

\* article_data of an entry, after _is_relevant and update().
entry_article(entry, summary, source_name) ==
    [url |-> get(entry, "link", <<>>), source |-> source_name]
    @@ is_relevant(entry_data(entry, summary))

\* The loop of RSSFeedScraper.scrape over the entries of one feed.
RECURSIVE rss_entries_loop(_, _, _)
rss_entries_loop(entries, source_name, seen_urls) ==
    IF entries = <<>> THEN [results |-> <<>>, seen_urls |-> seen_urls]
    ELSE IF \/ get(Head(entries), "link", <<>>) \in seen_urls
            \/ ~is_relevant_returns(entry_data(Head(entries), entry_summary(Head(entries))))
         THEN rss_entries_loop(Tail(entries), source_name, seen_urls)
         ELSE kept_then(entry_article(Head(entries), entry_summary(Head(entries)),
                                      source_name),
                        rss_entries_loop(Tail(entries), source_name,
                                         seen_urls \cup {get(Head(entries), "link", <<>>)}))

\* Entries gathered, one gathering after the other.
entries_then(a, b) == [entries |-> a.entries \o b.entries, trace |-> a.trace \o b.trace]

\* Requests that give no entry.
asked(trace) == [entries |-> <<>>, trace |-> trace]

\* The fallback of RSSFeedScraper.scrape, with every snapshot fetched.
never_stop(entries) == FALSE

\* if entries: break
stop_after(entries) == entries # <<>>

(* The loop over wayback_urls from the k-th on: snapshots[k] is what the
   fetch of wayback_urls[k] gives. *)
RECURSIVE rss_wayback_loop(_, _, _)
rss_wayback_loop(wayback_urls, snapshots, k) ==
    IF k > Len(wayback_urls) THEN asked(<<>>)
    ELSE IF snapshots[k].error
         THEN entries_then(asked(<<Fetch(wayback_urls[k])>>),
                           rss_wayback_loop(wayback_urls, snapshots, k + 1))
         ELSE IF stop_after(snapshots[k].entries)
              THEN [entries |-> snapshots[k].entries, trace |-> <<Fetch(wayback_urls[k])>>]
              ELSE entries_then([entries |-> snapshots[k].entries,
                                 trace |-> <<Fetch(wayback_urls[k])>>],
                                rss_wayback_loop(wayback_urls, snapshots, k + 1))

\* if not entries and self.config.use_wayback_fallback
rss_fallback_wanted(entries, cfg) == entries = <<>> /\ cfg.use_wayback_fallback

(* The entries of one feed of RSSFeedScraper.scrape: fw.live tells how the
   fetch of the feed went ("ok", or "status" / "error" with
   feedparser.parse(rss_url) asked instead), fw.entries the entries of the
   feed parsed, fw.apis what the archive answers to the lookups,
   fw.snapshots what the snapshots give. *)
rss_feed_entries(rss_url, cfg, fw) ==
    entries_then(
        asked(<<Fetch(rss_url)>> \o (IF fw.live # "ok" THEN <<Parse(rss_url)>> ELSE <<>>)),
        IF rss_fallback_wanted(fw.entries, cfg)
        THEN entries_then(
                 asked(<<Call("get_recent_wayback_urls", rss_url)>>),
                 rss_wayback_loop(
                     get_recent_wayback_urls(rss_url, cfg.max_wayback_attempts, fw.apis),
                     fw.snapshots, 1))
        ELSE [entries |-> fw.entries, trace |-> <<>>])

\* The loop of RSSFeedScraper.scrape over rss_feeds, from the f-th on.
RECURSIVE rss_feeds_loop(_, _, _, _)
rss_feed_kept(kept, trace, f, cfg, w) ==
    work_then([results |-> kept.results, trace |-> trace],
              rss_feeds_loop(f + 1, kept.seen_urls, cfg, w))

rss_feed_parsed(feed, f, seen_urls, cfg, w) ==
    rss_feed_kept(rss_entries_loop(feed.entries, rss_feeds[f].source_name, seen_urls),
                  feed.trace, f, cfg, w)

rss_feeds_loop(f, seen_urls, cfg, w) ==
    IF f > Len(rss_feeds) THEN NoWork
    ELSE rss_feed_parsed(rss_feed_entries(rss_feeds[f].rss_url, cfg, w.feeds[f]),
                         f, seen_urls, cfg, w)

rss_scrape(cfg, w) == rss_feeds_loop(1, {}, cfg, w)

\* The loop of SimpleSeattleTimesScraper.scrape over feed.entries.
RECURSIVE simple_entries_loop(_, _, _)
simple_entries_rest(result, entries, count, cfg) ==
    IF count + 1 >= cfg.max_articles_per_source
    THEN <<result>>
    ELSE <<result>> \o simple_entries_loop(Tail(entries), count + 1, cfg)

simple_entries_loop(entries, count, cfg) ==
    IF entries = <<>> THEN <<>>
    ELSE IF ~is_relevant_returns(
                 [title |-> get(Head(entries), "title", <<>>),
                  content |-> get(Head(entries), "summary",
                                  get(Head(entries), "description", <<>>))])
    THEN simple_entries_loop(Tail(entries), count, cfg)
    ELSE simple_entries_rest(
             is_relevant([title |-> get(Head(entries), "title", <<>>),
                          content |-> get(Head(entries), "summary",
                                          get(Head(entries), "description", <<>>)),
                          publish_date |-> get(Head(entries), "published", <<>>),
                          url |-> get(Head(entries), "link", <<>>),
                          source |-> "Seattle Times (RSS)"]),
             entries, count, cfg)

(* The loop over the links of one archived page: count is len(results)
   before the link, here the work on the first link. *)
RECURSIVE simple_links_loop(_, _, _, _)
simple_links_rest(here, hrefs, count, cfg, pages) ==
    IF here.results # <<>> /\ count + 1 >= cfg.max_articles_per_source
    THEN here
    ELSE work_then(here, simple_links_loop(Tail(hrefs), count + Len(here.results), cfg, pages))

simple_links_loop(hrefs, count, cfg, pages) ==
    IF hrefs = <<>> THEN NoWork
    ELSE simple_links_rest(
             extraction(extracted(Head(hrefs), StrangerSelectors, pages[Head(hrefs)]),
                        Head(hrefs), "Seattle Times (Simple)"),
             hrefs, count, cfg, pages)

(* The loop over wayback_urls from the k-th on: w.snapshots[k] is what the
   fetch of wayback_urls[k] gives, its links being those that pass the test
   on href; here is the work on the k-th. *)
RECURSIVE simple_wayback_loop(_, _, _, _, _)
simple_wayback_rest(here, wayback_urls, k, count, cfg, w) ==
    IF ~w.snapshots[k].error /\ count + Len(here.results) >= cfg.max_articles_per_source
    THEN here
    ELSE work_then(here, simple_wayback_loop(wayback_urls, k + 1,
                                             count + Len(here.results), cfg, w))

simple_wayback_loop(wayback_urls, k, count, cfg, w) ==
    IF k > Len(wayback_urls) THEN NoWork
    ELSE simple_wayback_rest(
             work_then(requests(<<Fetch(wayback_urls[k])>>),
                       IF w.snapshots[k].error THEN NoWork
                       ELSE simple_links_loop(head_of(w.snapshots[k].links, 50),
                                              count, cfg, w.pages)),
             wayback_urls, k, count, cfg, w)

\* The Wayback part of SimpleSeattleTimesScraper.scrape, after the feed gave from_feed.
simple_after_feed(from_feed, cfg, w) ==
    work_then(from_feed,
              simple_wayback_loop(get_recent_wayback_urls(base_urls[1], 5, w.apis),
                                  1, Len(from_feed.results), cfg, w))

(* SimpleSeattleTimesScraper.scrape: w.entries are the entries of the feed,
   w.apis what the archive answers to the five lookups. *)
simple_scrape(cfg, w) ==
    simple_after_feed(
        [results |-> simple_entries_loop(w.entries, 0, cfg),
         trace |-> <<Parse(rss_feeds[1].rss_url),
                     Call("get_recent_wayback_urls", base_urls[1])>>],
        cfg, w)

\* scrape() of the crawler class named scraper.
scrape(scraper, cfg, w) ==
    CASE scraper = "SeattleTimesScraper" -> seattle_times_scrape(cfg, w)
      [] scraper = "StrangerScraper" -> stranger_scrape(cfg, w)
      [] scraper = "CHSScraper" -> chs_scrape(cfg, w)
      [] scraper = "WebScrapingScraper" -> web_scrape(cfg, w)
      [] scraper = "RSSFeedScraper" -> rss_scrape(cfg, w)
      [] scraper = "SimpleSeattleTimesScraper" -> simple_scrape(cfg, w)

(***************************************************************************)
(* Inputs of the crawlers.                                                 *)
(***************************************************************************)
\* What a listing page links to, in the order the crawler meets the links.
LinkLists == InjSeqs(ExtractUrls, MaxLinks)

PageWorlds == [ExtractUrls -> PageStates]

\* No article page is asked for.
NoPages == [url \in ExtractUrls |-> "gone"]

SeattleTimesWorlds ==
    { [links |-> <<l1, l2>>, pages |-> p] : l1 \in LinkLists, l2 \in LinkLists, p \in PageWorlds }

\* order is list(article_links), the set of the links of both sections.
StrangerWorlds ==
    { [links |-> <<w.l1, w.l2>>, order |-> w.o, pages |-> w.p]
      : w \in { x \in [l1 : LinkLists, l2 : LinkLists, o : LinkLists, p : PageWorlds]
                : Range(x.o) = Range(x.l1) \cup Range(x.l2) } }

CHSWorlds == { [links |-> <<l>>, pages |-> p] : l \in LinkLists, p \in PageWorlds }

\* The links of the four sites, MaxLinks of them in all at most.
WebWorlds ==
    { [links |-> ls, pages |-> p]
      : ls \in { x \in [DOMAIN news_sites -> LinkLists]
                 : Len(x[1]) + Len(x[2]) + Len(x[3]) + Len(x[4]) <= MaxLinks },
        p \in PageWorlds }

\* Feed entries: one complete, one with content instead of a summary, one with a description.
FeedEntries ==
    { [title |-> <<"M","a","y","o","r">>, summary |-> <<"b","u","d","g","e","t">>,
       published |-> <<"2","0","2","5","-","0","1","-","3","0">>,
       link |-> <<"h","t","t","p","s",":","/","/","a",".","c","o","m","/","1">>],
      [title |-> <<"T","a","x","e","s">>,
       content |-> <<[value |-> <<"t","a","x","e","s">>]>>,
       link |-> <<"h","t","t","p","s",":","/","/","b",".","o","r","g","/","3">>],
      [title |-> <<"P","a","r","k","s">>, description |-> <<"p","a","r","k","s">>,
       link |-> <<"h","t","t","p","s",":","/","/","b",".","o","r","g","/","4">>] }

EntryLists == InjSeqs(FeedEntries, MaxEntries)

\* What the archive answers about a feed or a listing page.
FeedApiOutcomes(url) ==
    { ApiError,
      ApiJson(Closest(TRUE, ArchivePrefix \o url)),
      ApiJson(Closest(TRUE, OlderArchivePrefix \o url)) }

\* What the fetch of a snapshot of a feed gives.
SnapshotFeeds ==
    { [error |-> TRUE, entries |-> <<>>],
      [error |-> FALSE, entries |-> <<>>],
      [error |-> FALSE, entries |-> <<CHOOSE e \in FeedEntries : "summary" \in DOMAIN e>>] }

\* The worlds of one feed: a feed with entries, or an empty one with its archive.
FeedWorlds(rss_url, cfg) ==
    { [live |-> "ok", entries |-> es, apis |-> <<>>, snapshots |-> <<>>]
      : es \in EntryLists \ {<<>>} }
    \cup { [live |-> "status", entries |-> <<CHOOSE e \in FeedEntries : "summary" \in DOMAIN e>>,
            apis |-> <<>>, snapshots |-> <<>>] }
    \cup (IF cfg.use_wayback_fallback
          THEN UNION { { [live |-> l, entries |-> <<>>, apis |-> apis, snapshots |-> snaps]
                         : l \in {"ok", "error"},
                           snaps \in [1..Len(get_recent_wayback_urls(
                                                rss_url, cfg.max_wayback_attempts, apis))
                                      -> SnapshotFeeds] }
                       : apis \in [1..Len(first_timestamps(cfg.max_wayback_attempts))
                                   -> FeedApiOutcomes(rss_url)] }
          ELSE { [live |-> l, entries |-> <<>>, apis |-> <<>>, snapshots |-> <<>>]
                 : l \in {"ok", "error"} })

\* Of the worlds F of one feed, those in which no snapshot of it is named.
PlainFeedWorlds(F) == {fw \in F : fw.snapshots = <<>>}

\* The worlds of both feeds, from those of each: snapshots are named of one of them at most.
FeedPairs(F1, F2) ==
    { [feeds |-> <<f1, f2>>, pages |-> NoPages] : f1 \in F1, f2 \in PlainFeedWorlds(F2) }
    \cup { [feeds |-> <<f1, f2>>, pages |-> NoPages] : f1 \in PlainFeedWorlds(F1), f2 \in F2 }

RSSWorlds(cfg) ==
    FeedPairs(FeedWorlds(rss_feeds[1].rss_url, cfg), FeedWorlds(rss_feeds[2].rss_url, cfg))

\* What the fetch of a snapshot of the listing page gives.
SnapshotPages ==
    {[error |-> TRUE, links |-> <<>>]}
    \cup {[error |-> FALSE, links |-> l] : l \in LinkLists \ {<<>>}}

\* The answers to the five lookups: the first k name a snapshot.
SimpleApis ==
    { [i \in 1..5 |-> IF i <= k THEN ApiJson(Closest(TRUE, ArchivePrefix \o base_urls[1]))
                      ELSE ApiError]
      : k \in 0..MaxSnapshots }

SimpleWorlds ==
    UNION { { [entries |-> es, apis |-> apis, snapshots |-> snaps, pages |-> p]
              : es \in {<<>>} \cup {e \in EntryLists : Len(e) = MaxEntries /\ "summary" \in DOMAIN e[1]},
                snaps \in [1..Len(get_recent_wayback_urls(base_urls[1], 5, apis)) -> SnapshotPages],
                p \in PageWorlds }
            : apis \in SimpleApis }

VARIABLES
    title,        \* the title handed to check_relevance_weighted
    content,      \* the content handed to check_relevance_weighted
    relevance,    \* what check_relevance_weighted returned, None before the call
    ex_pc,        \* extract_article_content: "idle", "call" or "returned"
    ex_url,       \* its url argument
    ex_selectors, \* its selectors argument
    ex_live,      \* the response to the fetch of url
    ex_api,       \* the archive lookup's outcome, when there was one
    ex_snap,      \* the response to the fetch of the snapshot, when there was one
    ex_out,       \* what the call returned and the requests it made
    m_pc,         \* main: "idle", "run", "saved", "no_articles" or "aborted"
    m_i,          \* the index in Scrapers of the scraper to run next
    m_returned,   \* what each scraper run so far did: raised, or its results
    all_results,  \* all_results of main
    df,           \* the data frame written to the CSV file
    now           \* the clock datetime.now() reads

VARIABLES
    pr_pc,        \* process_article_data: "idle", "call" or "returned"
    pr_raw,       \* its raw_data argument
    pr_out        \* what it returned

VARIABLES
    ag_pc,        \* the aggregation: "idle", "call", "once", "same" or "fed_back"
    ag_in,        \* the candidates handed to it
    ag_out1,      \* the rows of its first run
    ag_out2       \* the rows of its second run

VARIABLES
    ar_pc,        \* the archive functions: "idle", "call" or "returned"
    ar_op,        \* the function called: get_wayback_url or get_recent_wayback_urls
    ar_url,       \* its url argument
    ar_limit,     \* the limit argument of get_recent_wayback_urls
    ar_apis,      \* the outcome of each lookup at the availability endpoint
    ar_out        \* how the call ended, and the timestamps it asked about

VARIABLES
    cr_pc,        \* a crawler: "idle", "call" or "returned"
    cr_scraper,   \* the class whose scrape() ran
    config,       \* the ScrapingConfig of the crawler
    cr_world,     \* what the sites answered
    cr_out        \* the results of scrape() and the trace of its requests and pauses

VARIABLES
    rt_pc,          \* a wrapped call: "idle", "loop", "returned" or "raised"
    max_retries,    \* max_retries of retry_on_failure
    backoff_factor, \* backoff_factor of retry_on_failure
    attempt,        \* attempt of the loop of wrapper
    rt_trace,       \* the invocations of func and the sleeps so far, in order
    rt_out          \* what wrapper returned or raised

scorer_vars == <<title, content, relevance>>

extract_vars == <<ex_pc, ex_url, ex_selectors, ex_live, ex_api, ex_snap, ex_out>>

main_vars == <<m_pc, m_i, m_returned, all_results, df, now>>

archive_vars == <<ar_pc, ar_op, ar_url, ar_limit, ar_apis, ar_out>>

process_vars == <<pr_pc, pr_raw, pr_out>>

aggregate_vars == <<ag_pc, ag_in, ag_out1, ag_out2>>

crawl_vars == <<cr_pc, cr_scraper, config, cr_world, cr_out>>

retry_vars == <<rt_pc, max_retries, backoff_factor, attempt, rt_trace, rt_out>>

later_vars == <<archive_vars, process_vars, aggregate_vars, crawl_vars, retry_vars>>

vars == <<scorer_vars, extract_vars, main_vars, later_vars>>

NoOut ==
    [result |-> None, calls |-> <<>>, wayback_url |-> NoneStr, fields |-> NoFields,
     source |-> "none"]

(***************************************************************************)
(* The scorer, called once on a title and a content.                       *)
(***************************************************************************)
ScorerStart ==
    /\ title \in ScorerTitles
    /\ content \in ScorerContents
    /\ relevance = None

ScorerIdle ==
    /\ title = <<>>
    /\ content = <<>>
    /\ relevance = None

\* One call of check_relevance_weighted(title, content).
Score ==
    /\ relevance = None
    /\ relevance' = check_relevance_weighted(title, content)
    /\ UNCHANGED <<title, content>>
    /\ UNCHANGED <<extract_vars, main_vars, later_vars>>

(***************************************************************************)
(* The extractor, called once on a url and a SelectorSet.                  *)
(***************************************************************************)
ExtractStart ==
    /\ ex_pc = "call"
    /\ ex_url \in ExtractUrls
    /\ ex_selectors \in ExtractSelectorSets
    /\ ex_live = ErrorResponse
    /\ ex_api = ApiError
    /\ ex_snap = ErrorResponse
    /\ ex_out = NoOut

ExtractIdle ==
    /\ ex_pc = "idle"
    /\ ex_url = <<>>
    /\ ex_selectors = SeattleTimesSelectors
    /\ ex_live = ErrorResponse
    /\ ex_api = ApiError
    /\ ex_snap = ErrorResponse
    /\ ex_out = NoOut

Returned(live, api, snap) ==
    /\ ex_pc' = "returned"
    /\ ex_live' = live
    /\ ex_api' = api
    /\ ex_snap' = snap
    /\ ex_out' = extract_article_content(ex_url, ex_selectors, live, api, snap)
    /\ UNCHANGED <<ex_url, ex_selectors>>
    /\ UNCHANGED <<scorer_vars, main_vars, later_vars>>

\* The live fetch succeeds: neither the archive nor a snapshot is asked for.
ExtractLive ==
    /\ ex_pc = "call"
    /\ \E live \in LiveResponses :
        /\ ~live.error
        /\ ~raise_for_status(live)
        /\ Returned(live, ApiError, ErrorResponse)

\* The live fetch fails and the archive has no snapshot.
ExtractNoSnapshot ==
    /\ ex_pc = "call"
    /\ \E live \in {r \in LiveResponses : r.error \/ raise_for_status(r)} :
        \E api \in WaybackApiOutcomes(ex_url) :
            /\ ~truthy(get_wayback_url(ex_url, api))
            /\ Returned(live, api, ErrorResponse)

\* The live fetch fails and the archive names a snapshot, which is fetched.
ExtractSnapshot ==
    /\ ex_pc = "call"
    /\ \E live \in {r \in LiveResponses : r.error \/ raise_for_status(r)} :
        \E api \in WaybackApiOutcomes(ex_url) :
            /\ truthy(get_wayback_url(ex_url, api))
            /\ \E snap \in SnapshotResponses : Returned(live, api, snap)

(***************************************************************************)
(* main(): every scraper in turn, then the aggregation.                    *)
(***************************************************************************)
MainStart ==
    /\ m_pc = "run"
    /\ m_i = 1
    /\ m_returned = <<>>
    /\ all_results = <<>>
    /\ df = <<>>
    /\ now = 0

MainIdle ==
    /\ m_pc = "idle"
    /\ m_i = 1
    /\ m_returned = <<>>
    /\ all_results = <<>>
    /\ df = <<>>
    /\ now = 0

Ran(scraper, raised, results) ==
    [scraper |-> scraper, raised |-> raised, results |-> results]

\* The handler of main's try, with the exception propagating instead.
ScrapeRaisesAbort ==
    /\ m_pc = "run"
    /\ m_i <= Len(Scrapers)
    /\ m_pc' = "aborted"
    /\ m_returned' = Append(m_returned, Ran(Scrapers[m_i], TRUE, <<>>))
    /\ now' = now + 1
    /\ UNCHANGED <<m_i, all_results, df>>
    /\ UNCHANGED <<scorer_vars, extract_vars, later_vars>>

\* scraper.scrape("mayor") raises: main logs the error and goes on.
ScrapeRaises ==
    /\ m_pc = "run"
    /\ m_i <= Len(Scrapers)
    /\ m_returned' = Append(m_returned, Ran(Scrapers[m_i], TRUE, <<>>))
    /\ m_i' = m_i + 1
    /\ now' = now + 1
    /\ UNCHANGED <<m_pc, all_results, df>>
    /\ UNCHANGED <<scorer_vars, extract_vars, later_vars>>

\* scraper.scrape("mayor") returns results: main processes and collects them.
ScrapeReturns ==
    /\ m_pc = "run"
    /\ m_i <= Len(Scrapers)
    /\ \E results \in ScrapeResults[Scrapers[m_i]] :
        /\ m_returned' = Append(m_returned, Ran(Scrapers[m_i], FALSE, results))
        /\ all_results' = all_results \o processed_results(results, now)
    /\ m_i' = m_i + 1
    /\ now' = now + 1
    /\ UNCHANGED <<m_pc, df>>
    /\ UNCHANGED <<scorer_vars, extract_vars, later_vars>>

\* The frame of main after both drop_duplicates calls.
deduplicated(rows) == drop_duplicates(drop_duplicates(rows, "url"), "title")

\* After the loop, all_results is not empty: deduplicate, sort, save.
SaveResults ==
    /\ m_pc = "run"
    /\ m_i > Len(Scrapers)
    /\ all_results # <<>>
    /\ df' \in sort_values(deduplicated(all_results))
    /\ m_pc' = "saved"
    /\ UNCHANGED <<m_i, m_returned, all_results, now>>
    /\ UNCHANGED <<scorer_vars, extract_vars, later_vars>>

\* After the loop, all_results is empty: main logs "No articles found".
NoArticles ==
    /\ m_pc = "run"
    /\ m_i > Len(Scrapers)
    /\ all_results = <<>>
    /\ m_pc' = "no_articles"
    /\ UNCHANGED <<m_i, m_returned, all_results, df, now>>
    /\ UNCHANGED <<scorer_vars, extract_vars, later_vars>>

(***************************************************************************)
(* The archive functions, one of them called once on a url.                *)
(***************************************************************************)
NoLookup == [raised |-> FALSE, value |-> NoneStr, lookups |-> <<>>]

ArchiveStart ==
    /\ ar_pc = "call"
    /\ ar_op = "none"
    /\ ar_url \in ExtractUrls
    /\ ar_limit = 0
    /\ ar_apis = <<>>
    /\ ar_out = NoLookup

ArchiveIdle ==
    /\ ar_pc = "idle"
    /\ ar_op = "none"
    /\ ar_url = <<>>
    /\ ar_limit = 0
    /\ ar_apis = <<>>
    /\ ar_out = NoLookup

\* get_wayback_url(ar_url), the endpoint answering with api.
GetWaybackUrl ==
    /\ ar_pc = "call"
    /\ \E api \in WaybackApiOutcomes(ar_url) :
        /\ ar_apis' = <<api>>
        /\ ar_out' = [lookups |-> <<>>] @@ get_wayback_url_call(ar_url, api)
    /\ ar_pc' = "returned"
    /\ ar_op' = "get_wayback_url"
    /\ UNCHANGED <<ar_url, ar_limit>>
    /\ UNCHANGED <<scorer_vars, extract_vars, main_vars, process_vars, aggregate_vars, crawl_vars, retry_vars>>

\* get_recent_wayback_urls(ar_url, limit), the endpoint answering lookup i with apis[i].
GetRecentWaybackUrls ==
    /\ ar_pc = "call"
    /\ \E limit \in 0..MaxLimit :
        \E apis \in [1..Len(first_timestamps(limit)) -> WaybackApiOutcomes(ar_url)] :
            /\ ar_limit' = limit
            /\ ar_apis' = apis
            /\ ar_out' = get_recent_wayback_urls_call(ar_url, limit, apis)
    /\ ar_pc' = "returned"
    /\ ar_op' = "get_recent_wayback_urls"
    /\ UNCHANGED ar_url
    /\ UNCHANGED <<scorer_vars, extract_vars, main_vars, process_vars, aggregate_vars, crawl_vars, retry_vars>>

(***************************************************************************)
(* process_article_data, called once on a raw article dict.                *)
(***************************************************************************)
\* ScrapingConfig.max_content_length
max_content_length == 1000

\* The pieces raw titles are put together from.
TextPieces ==
    { <<"n","e","w","s">>,
      <<"A","d","v","e","r","t","i","s","e","m","e","n","t">>,
      <<"A","D","V","E","R","T","I","S","E","M","E","N","T">>,
      <<" ">>,
      <<"\n">> }

RawTitles == {join(<<>>, ps) : ps \in SeqsUpTo(TextPieces, MaxPieces)}

\* A content longer than max_content_length.
LongContent == [i \in 1..(max_content_length + 10) |-> "x"]

RawContents ==
    { <<>>,
      <<"a"," "," ","b">>,
      <<"t","a","x","e","s"," ","A","d","v","e","r","t","i","s","e","m","e","n","t">>,
      LongContent }

RawUrls ==
    { <<"h","t","t","p","s",":","/","/","a",".","c","o","m","/","1">>,
      <<"a",".","c","o","m","/","1">> }

\* The dicts handed to process_article_data: complete ones, and one without a title.
RawArticles ==
    { [title |-> t, content |-> c, url |-> u, source |-> "KING 5"]
      : t \in RawTitles, c \in RawContents, u \in RawUrls }
    \cup { [content |-> <<"a">>, url |-> u] : u \in RawUrls }

ProcessStart ==
    /\ pr_pc = "call"
    /\ pr_raw \in RawArticles
    /\ pr_out = None

ProcessIdle ==
    /\ pr_pc = "idle"
    /\ pr_raw = EmptyDict
    /\ pr_out = None

\* One call of process_article_data(pr_raw).
ProcessArticleData ==
    /\ pr_pc = "call"
    /\ pr_out' = process_article_data(pr_raw, now)
    /\ pr_pc' = "returned"
    /\ UNCHANGED pr_raw
    /\ UNCHANGED <<scorer_vars, extract_vars, main_vars, archive_vars, aggregate_vars, crawl_vars, retry_vars>>

(***************************************************************************)
(* The aggregation of main, run on a list of candidates and run again.     *)
(***************************************************************************)
(* What main does with the results of the scrapers: process each, drop the
   duplicates, sort.  The set holds every data frame the sort can give. *)
aggregate(results, t) == sort_values(deduplicated(processed_results(results, t)))

\* Candidates with different urls and titles; the first two score the same.
CandidatePool ==
    { Scraped("The Stranger",
              <<"h","t","t","p","s",":","/","/","a",".","c","o","m","/","1">>,
              <<"A">>,
              <<"m","a","y","o","r">>),
      Scraped("KING 5",
              <<"h","t","t","p","s",":","/","/","b",".","o","r","g","/","3">>,
              <<"B">>,
              <<"e","l","e","c","t","i","o","n">>),
      Scraped("KIRO 7",
              <<"h","t","t","p","s",":","/","/","b",".","o","r","g","/","5">>,
              <<"C">>,
              <<"t","a","x","e","s">>),
      Scraped("KUOW",
              <<"h","t","t","p","s",":","/","/","b",".","o","r","g","/","6">>,
              <<"D">>,
              <<"n","o"," "," ","z","o","n","i","n","g">>) }

AggregateStart ==
    /\ ag_pc = "call"
    /\ ag_in \in InjSeqs(CandidatePool, MaxCandidates)
    /\ ag_out1 = <<>>
    /\ ag_out2 = <<>>

AggregateIdle ==
    /\ ag_pc = "idle"
    /\ ag_in = <<>>
    /\ ag_out1 = <<>>
    /\ ag_out2 = <<>>

\* The first run, on the candidates.
Aggregate ==
    /\ ag_pc = "call"
    /\ ag_out1' \in aggregate(ag_in, now)
    /\ ag_pc' = "once"
    /\ now' = now + 1
    /\ UNCHANGED <<ag_in, ag_out2>>
    /\ UNCHANGED <<m_pc, m_i, m_returned, all_results, df>>
    /\ UNCHANGED <<scorer_vars, extract_vars, archive_vars, process_vars, crawl_vars, retry_vars>>

\* A second run on the same candidates.
AggregateSame ==
    /\ ag_pc = "once"
    /\ ag_out2' \in aggregate(ag_in, now)
    /\ ag_pc' = "same"
    /\ now' = now + 1
    /\ UNCHANGED <<ag_in, ag_out1>>
    /\ UNCHANGED <<m_pc, m_i, m_returned, all_results, df>>
    /\ UNCHANGED <<scorer_vars, extract_vars, archive_vars, process_vars, crawl_vars, retry_vars>>

\* A second run on the rows the first run gave.
AggregateOutput ==
    /\ ag_pc = "once"
    /\ ag_out2' \in aggregate(ag_out1, now)
    /\ ag_pc' = "fed_back"
    /\ now' = now + 1
    /\ UNCHANGED <<ag_in, ag_out1>>
    /\ UNCHANGED <<m_pc, m_i, m_returned, all_results, df>>
    /\ UNCHANGED <<scorer_vars, extract_vars, archive_vars, process_vars, crawl_vars, retry_vars>>

(***************************************************************************)
(* retry_on_failure: one call of the wrapper of a function func.  An       *)
(* invocation of func returns a value or raises an exception.              *)
(***************************************************************************)
\* What one invocation of func can do.
FuncOutcomes ==
    {[raised |-> FALSE, value |-> "ok"]}
    \cup {[raised |-> TRUE, value |-> e] : e \in {"ConnectionError", "Timeout"}}

Invoked(outcome) == [op |-> "func", raised |-> outcome.raised, value |-> outcome.value]

\* time.sleep(backoff_factor * (2 ** attempt))
Slept(factor, n) == [op |-> "time.sleep", secs |-> factor * 2^n]

\* The loop of wrapper that never takes the attempt for the last.
never_last_attempt(n, retries) == FALSE

\* attempt == max_retries - 1
last_attempt(n, retries) == n = retries - 1

RetryStart ==
    /\ rt_pc = "loop"
    /\ max_retries \in 0..MaxRetries
    /\ backoff_factor \in {1, 2}
    /\ attempt = 0
    /\ rt_trace = <<>>
    /\ rt_out = None

RetryIdle ==
    /\ rt_pc = "idle"
    /\ max_retries = 3
    /\ backoff_factor = 1
    /\ attempt = 0
    /\ rt_trace = <<>>
    /\ rt_out = None

RetryUnchanged ==
    UNCHANGED <<scorer_vars, extract_vars, main_vars, archive_vars, process_vars, aggregate_vars,
                crawl_vars>>

\* return func(*args, **kwargs)
FuncReturns ==
    /\ rt_pc = "loop"
    /\ attempt < max_retries
    /\ \E outcome \in {o \in FuncOutcomes : ~o.raised} :
          /\ rt_trace' = Append(rt_trace, Invoked(outcome))
          /\ rt_out' = [raised |-> FALSE, value |-> outcome.value]
    /\ rt_pc' = "returned"
    /\ UNCHANGED <<max_retries, backoff_factor, attempt>>
    /\ RetryUnchanged

\* func raises on the last attempt: raise
FuncRaisesLast ==
    /\ rt_pc = "loop"
    /\ attempt < max_retries
    /\ last_attempt(attempt, max_retries)
    /\ \E outcome \in {o \in FuncOutcomes : o.raised} :
          /\ rt_trace' = Append(rt_trace, Invoked(outcome))
          /\ rt_out' = [raised |-> TRUE, value |-> outcome.value]
    /\ rt_pc' = "raised"
    /\ UNCHANGED <<max_retries, backoff_factor, attempt>>
    /\ RetryUnchanged

\* func raises on an earlier attempt: sleep, then the next attempt
FuncRaisesRetry ==
    /\ rt_pc = "loop"
    /\ attempt < max_retries
    /\ ~last_attempt(attempt, max_retries)
    /\ \E outcome \in {o \in FuncOutcomes : o.raised} :
          rt_trace' = rt_trace \o <<Invoked(outcome), Slept(backoff_factor, attempt)>>
    /\ attempt' = attempt + 1
    /\ UNCHANGED <<rt_pc, max_retries, backoff_factor, rt_out>>
    /\ RetryUnchanged

\* The loop is over: return None
LoopOver ==
    /\ rt_pc = "loop"
    /\ attempt >= max_retries
    /\ rt_pc' = "returned"
    /\ rt_out' = [raised |-> FALSE, value |-> "None"]
    /\ UNCHANGED <<max_retries, backoff_factor, attempt, rt_trace>>
    /\ RetryUnchanged

(***************************************************************************)
(* The crawlers: one call of scrape() of one class.                        *)
(***************************************************************************)
\* The defaults of ScrapingConfig.
ScrapingConfig ==
    [max_articles_per_source |-> 10, use_wayback_fallback |-> TRUE, max_wayback_attempts |-> 2]

CrawlStart ==
    /\ cr_pc = "call"
    /\ cr_scraper = "none"
    /\ config \in Configs
    /\ cr_world = NoPages
    /\ cr_out = NoWork

CrawlIdle ==
    /\ cr_pc = "idle"
    /\ cr_scraper = "none"
    /\ config = ScrapingConfig
    /\ cr_world = NoPages
    /\ cr_out = NoWork

ScrapeCall(scraper, w, out) ==
    /\ cr_pc = "call"
    /\ cr_pc' = "returned"
    /\ cr_scraper' = scraper
    /\ cr_world' = w
    /\ cr_out' = out
    /\ UNCHANGED config
    /\ UNCHANGED <<scorer_vars, extract_vars, main_vars, archive_vars, process_vars, aggregate_vars,
                   retry_vars>>

ScrapeSeattleTimes == cr_pc = "call" /\ \E w \in SeattleTimesWorlds : ScrapeCall("SeattleTimesScraper", w, seattle_times_scrape(config, w))

ScrapeStranger == cr_pc = "call" /\ \E w \in StrangerWorlds : ScrapeCall("StrangerScraper", w, stranger_scrape(config, w))

ScrapeCHS == cr_pc = "call" /\ \E w \in CHSWorlds : ScrapeCall("CHSScraper", w, chs_scrape(config, w))

ScrapeWeb == cr_pc = "call" /\ \E w \in WebWorlds : ScrapeCall("WebScrapingScraper", w, web_scrape(config, w))

ScrapeRSS == cr_pc = "call" /\ \E w \in RSSWorlds(config) : ScrapeCall("RSSFeedScraper", w, rss_scrape(config, w))

ScrapeSimple == cr_pc = "call" /\ \E w \in SimpleWorlds : ScrapeCall("SimpleSeattleTimesScraper", w, simple_scrape(config, w))

(***************************************************************************)
(* Specifications.                                                         *)
(***************************************************************************)
LaterIdle == ArchiveIdle /\ ProcessIdle /\ AggregateIdle /\ CrawlIdle /\ RetryIdle

ScorerInit == ScorerStart /\ ExtractIdle /\ MainIdle /\ LaterIdle

ScorerNext == Score

SpecScorer == ScorerInit /\ [][ScorerNext]_vars

ExtractInit == ScorerIdle /\ ExtractStart /\ MainIdle /\ LaterIdle

ExtractNext == ExtractLive \/ ExtractNoSnapshot \/ ExtractSnapshot

SpecExtract == ExtractInit /\ [][ExtractNext]_vars

MainInit == ScorerIdle /\ ExtractIdle /\ MainStart /\ LaterIdle

MainNext == ScrapeRaises \/ ScrapeReturns \/ SaveResults \/ NoArticles

SpecMain == MainInit /\ [][MainNext]_vars

ArchiveInit ==
    ScorerIdle /\ ExtractIdle /\ MainIdle /\ ArchiveStart /\ ProcessIdle /\ AggregateIdle
    /\ CrawlIdle /\ RetryIdle

ArchiveNext == GetWaybackUrl \/ GetRecentWaybackUrls

SpecArchive == ArchiveInit /\ [][ArchiveNext]_vars

ProcessInit ==
    ScorerIdle /\ ExtractIdle /\ MainIdle /\ ArchiveIdle /\ ProcessStart /\ AggregateIdle
    /\ CrawlIdle /\ RetryIdle

ProcessNext == ProcessArticleData

SpecProcess == ProcessInit /\ [][ProcessNext]_vars

AggregateInit ==
    ScorerIdle /\ ExtractIdle /\ MainIdle /\ ArchiveIdle /\ ProcessIdle /\ AggregateStart
    /\ CrawlIdle /\ RetryIdle

AggregateNext == Aggregate \/ AggregateSame \/ AggregateOutput

SpecAggregate == AggregateInit /\ [][AggregateNext]_vars

CrawlInit ==
    ScorerIdle /\ ExtractIdle /\ MainIdle /\ ArchiveIdle /\ ProcessIdle /\ AggregateIdle
    /\ CrawlStart /\ RetryIdle

CrawlNext ==
    ScrapeSeattleTimes \/ ScrapeStranger \/ ScrapeCHS \/ ScrapeWeb \/ ScrapeRSS \/ ScrapeSimple

SpecCrawl == CrawlInit /\ [][CrawlNext]_vars

RetryInit ==
    ScorerIdle /\ ExtractIdle /\ MainIdle /\ ArchiveIdle /\ ProcessIdle /\ AggregateIdle
    /\ CrawlIdle /\ RetryStart

RetryNext == FuncReturns \/ FuncRaisesLast \/ FuncRaisesRetry \/ LoopOver

SpecRetry == RetryInit /\ [][RetryNext]_vars

(***************************************************************************)
(* Properties of the scorer, checked under SpecScorer.                     *)
(***************************************************************************)
KeywordList == [i \in DOMAIN RELEVANCE_KEYWORDS |-> RELEVANCE_KEYWORDS[i].keyword]

Keywords == Range(KeywordList)

WeightOf(keyword) ==
    LET i == CHOOSE j \in DOMAIN RELEVANCE_KEYWORDS :
                RELEVANCE_KEYWORDS[j].keyword = keyword
    IN weights[RELEVANCE_KEYWORDS[i].level]

\* Twice the sum of the tier weights of the keywords of the sequence ks.
RECURSIVE SumWeights2(_)
SumWeights2(ks) ==
    IF ks = <<>> THEN 0 ELSE 2 * WeightOf(Head(ks)) + SumWeights2(Tail(ks))

IsTitleEntry(m) ==
    /\ Len(m) > Len(TitleSuffix)
    /\ SubSeq(m, Len(m) - Len(TitleSuffix) + 1, Len(m)) = TitleSuffix

\* The term of a "<term> (title)" entry.
TermOf(m) == SubSeq(m, 1, Len(m) - Len(TitleSuffix))

Scored == relevance # None

FullText == lower(title \o <<" ">> \o content)

NewMayorElected == <<"N","e","w"," ","M","a","y","o","r"," ","E","l","e","c","t","e","d">>

Mayor == <<"m","a","y","o","r">>

(* C1: the matches are the keywords matched in title + " " + content, in
   table order, followed by one "<term> (title)" entry per keyword found in
   the title, each keyword at most once and in table order; every keyword
   that matches in the title as a word has its entry, and every entry's term
   occurs in the title.  The score is the sum of the tier weights of the
   plain entries plus half the tier weights of the "(title)" entries (here
   doubled: score2 = 2 * score).  Title "New Mayor Elected" with empty
   content scores 4.5 with matches "mayor", "mayor (title)". *)
C1_ScoreIsWeightedSum ==
    Scored =>
        LET plain == SelectSeq(relevance.matches, LAMBDA m : ~IsTitleEntry(m))
            titled == SelectSeq(relevance.matches, IsTitleEntry)
            terms == [i \in DOMAIN titled |-> TermOf(titled[i])]
        IN /\ relevance.matches = plain \o titled
           /\ plain = SelectSeq(KeywordList, LAMBDA k : re_search_word(lower(k), FullText))
           /\ terms = SelectSeq(KeywordList, LAMBDA k : k \in Range(terms))
           /\ \A k \in Keywords :
                /\ re_search_word(lower(k), lower(title)) => k \in Range(terms)
                /\ k \in Range(terms) => contains(lower(title), lower(k))
           /\ 2 * relevance.score2 = 2 * SumWeights2(plain) + SumWeights2(terms)
           /\ (title = NewMayorElected /\ content = <<>>) =>
                /\ relevance.score2 = 9
                /\ relevance.matches = <<Mayor, Mayor \o TitleSuffix>>

\* "New Mayor Elected" with empty content has been scored 4.5.
C1_Witness ==
    /\ Scored
    /\ title = NewMayorElected
    /\ content = <<>>
    /\ relevance.score2 = 9
    /\ Mayor \o TitleSuffix \in Range(relevance.matches)

(* C2: in both scans a keyword counts only where it stands as a whole word,
   in any letter case: a plain entry is in matches only if the keyword
   matches between word boundaries in title + " " + content, a "(title)"
   entry only if it matches between word boundaries in the title, and the
   score holds nothing but the weights of those matches. *)
C2_WordBoundaryInEveryScan ==
    Scored =>
        /\ \A k \in Keywords :
            /\ k \in Range(relevance.matches) => re_search_word(lower(k), FullText)
            /\ k \o TitleSuffix \in Range(relevance.matches)
                  => re_search_word(lower(k), lower(title))
        /\ 2 * relevance.score2 =
              2 * SumWeights2(SelectSeq(KeywordList,
                                LAMBDA k : re_search_word(lower(k), FullText)))
              + SumWeights2(SelectSeq(KeywordList,
                                LAMBDA k : re_search_word(lower(k), lower(title))))

(***************************************************************************)
(* Properties of the extractor, checked under SpecExtract.                 *)
(***************************************************************************)
ExtractReturned == ex_pc = "returned"

LiveFetchFailed == ex_live.error \/ raise_for_status(ex_live)

\* The document the fields were extracted from.
ExtractedSoup == IF ex_out.source = "live" THEN ex_live.soup ELSE ex_snap.soup

DocumentFetched == ExtractReturned /\ ex_out.source # "none"

(* C3: when the live fetch raises or answers with an error status, the
   archive is asked about the original url.  If it names a snapshot, exactly
   one more fetch is made, of that snapshot, and the result is what the
   snapshot's document yields; if it names none, no more fetch is made and
   the extraction returns None. *)
C3_FallbackToSnapshot ==
    (ExtractReturned /\ LiveFetchFailed) =>
        LET snapshot == get_wayback_url(ex_url, ex_api)
            calls == ex_out.calls
        IN /\ Len(calls) >= 2
           /\ calls[1] = Call("session.get", ex_url)
           /\ calls[2] = Call("get_wayback_url", ex_url)
           /\ IF truthy(snapshot)
              THEN /\ Len(calls) = 3
                   /\ calls[3] = Call("session.get", snapshot)
                   /\ ex_snap.error => ex_out.result = None
                   /\ ~ex_snap.error =>
                        /\ ex_out.source = "wayback"
                        /\ ex_out.fields = extract_fields(ex_snap.soup, ex_selectors)
                        /\ ex_out.result # None =>
                              ex_out.result.publish_date = ex_out.fields.date
              ELSE /\ Len(calls) = 2
                   /\ ex_out.result = None

\* A failed live fetch, a snapshot named and fetched, and fields returned.
C3_Witness ==
    /\ ExtractReturned
    /\ LiveFetchFailed
    /\ Len(ex_out.calls) = 3
    /\ ex_out.calls[3].url = ArchivePrefix \o ex_url
    /\ ex_out.result # None

\* The value a matching selector gives its field.
ValueOf(selector, elements) ==
    IF startswith_meta(selector) THEN meta_content(elements) ELSE joined_text(elements)

\* The indices of the selectors of the list that match one or more elements.
Matching(soup, selectors) ==
    {i \in DOMAIN selectors : ~select_raises(selectors[i]) /\ soup[selectors[i]] # <<>>}

(* C4: each field is decided by the first selector of its list that matches
   one or more elements, and by no later one; it is empty when none matches.
   With .headline listed before h1 and both present, the title is the
   .headline text. *)
C4_FirstMatchingSelectorWins ==
    DocumentFetched =>
        /\ \A field \in {"title", "content", "date"} :
            LET selectors == ex_selectors[field]
                hit == Matching(ExtractedSoup, selectors)
            IN IF hit = {}
               THEN ex_out.fields[field] = <<>>
               ELSE LET first == CHOOSE i \in hit : \A j \in hit : i <= j
                    IN ex_out.fields[field]
                         = ValueOf(selectors[first], ExtractedSoup[selectors[first]])
        /\ (ex_selectors = HeadlineFirstSelectors /\ ExtractedSoup[".headline"] # <<>>)
              => ex_out.fields.title = joined_text(ExtractedSoup[".headline"])

\* .headline listed before h1, both present with different texts.
C4_Witness ==
    /\ DocumentFetched
    /\ ex_selectors = HeadlineFirstSelectors
    /\ ExtractedSoup[".headline"] # <<>>
    /\ ExtractedSoup["h1"] # <<>>
    /\ joined_text(ExtractedSoup["h1"]) # joined_text(ExtractedSoup[".headline"])
    /\ ex_out.fields.title = joined_text(ExtractedSoup[".headline"])

(* C5: for a fetched document, live or archived, the extraction returns None
   exactly when the extracted title and the extracted content are both
   empty; otherwise it returns a dict with title, content and publish_date. *)
C5_NoneIffBothEmpty ==
    DocumentFetched =>
        /\ ex_out.result = None
              <=> (ex_out.fields.title = <<>> /\ ex_out.fields.content = <<>>)
        /\ ex_out.result # None
              => DOMAIN ex_out.result = {"title", "content", "publish_date"}

\* An archived document with content but no title gives a result.
C5_Witness ==
    /\ DocumentFetched
    /\ ex_out.source = "wayback"
    /\ ex_out.fields.title = <<>>
    /\ ex_out.fields.content # <<>>
    /\ ex_out.result # None

(* C6, as claimed: in a successful result the title is the extracted title,
   empty when no title was extracted, and an empty extracted content is
   replaced by the title. *)
C6_TitleNeverSubstituted ==
    (ExtractReturned /\ ex_out.result # None) =>
        /\ ex_out.result.title = ex_out.fields.title
        /\ ex_out.fields.content = <<>> => ex_out.result.content = ex_out.fields.title

(* C6, amended: in a successful result a non-empty extracted title is
   returned as it is and an empty one is replaced by "No title"; a non-empty
   extracted content is returned as it is and an empty one is replaced by
   the extracted title. *)
C6_EmptyTitleBecomesNoTitle ==
    (ExtractReturned /\ ex_out.result # None) =>
        /\ ex_out.result.title
             = (IF ex_out.fields.title # <<>> THEN ex_out.fields.title ELSE NoTitle)
        /\ ex_out.result.content
             = (IF ex_out.fields.content # <<>> THEN ex_out.fields.content
                ELSE ex_out.fields.title)

\* A document with content and no title: the result's title is "No title".
C6_Witness ==
    /\ ExtractReturned
    /\ ex_out.result # None
    /\ ex_out.fields.title = <<>>
    /\ ex_out.fields.content # <<>>
    /\ ex_out.result.title = NoTitle

(***************************************************************************)
(* Properties of main, checked under SpecMain.                             *)
(***************************************************************************)
Saved == m_pc = "saved"

RunEnded == m_pc \notin {"idle", "run"}

(* C7: every exported record has a url with a scheme and a host and a
   non-empty cleaned title, and no exported record has both its cleaned
   title and its cleaned content empty. *)
C7_ExportedRecordsValid ==
    Saved =>
        \A i \in DOMAIN df :
            /\ is_valid_url(df[i].url)
            /\ df[i].title # <<>>
            /\ ~(df[i].title = <<>> /\ df[i].content = <<>>)

\* Row i of all_results is the first with its url.
UrlFirst(i) == \A j \in 1..(i - 1) : all_results[j].url # all_results[i].url

\* Row i is the first with its title among the rows that are first with their url.
TitleFirst(i) ==
    \A j \in 1..(i - 1) : UrlFirst(j) => all_results[j].title # all_results[i].title

Survivors == {i \in DOMAIN all_results : UrlFirst(i) /\ TitleFirst(i)}

(* C8: after the deduplication no two exported records share a url and no
   two share a title, and the exported records are exactly the rows of
   all_results that are the first with their url, and the first with their
   title among those. *)
C8_DeduplicatedKeepFirst ==
    Saved =>
        /\ \A a, b \in DOMAIN df :
              a # b => (df[a].url # df[b].url /\ df[a].title # df[b].title)
        /\ Range(df) = {all_results[i] : i \in Survivors}
        /\ Len(df) = Cardinality(Survivors)

\* One pair collapsed by its url, another by its title.
C8_Witness ==
    /\ Saved
    /\ \E i, j \in DOMAIN all_results :
          /\ i < j
          /\ all_results[i].url = all_results[j].url
          /\ all_results[i].title # all_results[j].title
          /\ all_results[i] \in Range(df)
          /\ all_results[j] \notin Range(df)
    /\ \E i, j \in DOMAIN all_results :
          /\ i < j
          /\ all_results[i].url # all_results[j].url
          /\ all_results[i].title = all_results[j].title
          /\ all_results[i] \in Range(df)
          /\ all_results[j] \notin Range(df)

\* The place of an exported row in the input order.
InputPosition(row) == CHOOSE i \in DOMAIN all_results : all_results[i] = row

(* C9: the exported rows are in descending order of relevance_score, and
   rows with equal scores keep their input order. *)
C9_StableDescendingOrder ==
    Saved =>
        \A a, b \in DOMAIN df :
            a < b =>
                \/ df[a].relevance_score2 > df[b].relevance_score2
                \/ /\ df[a].relevance_score2 = df[b].relevance_score2
                   /\ InputPosition(df[a]) < InputPosition(df[b])

\* The rows main collects from the scrapers run so far, from the k-th on.
RECURSIVE CollectedFrom(_)
CollectedFrom(k) ==
    IF k > Len(m_returned) THEN <<>>
    ELSE (IF m_returned[k].raised THEN <<>>
          ELSE processed_results(m_returned[k].results, k - 1))
         \o CollectedFrom(k + 1)

(* C10: a scraper that raises does not end the run: the scrapers run in the
   order of the list, the run ends only after the last one, all_results
   holds the processed results of exactly the scrapers that returned, and a
   run without any record ends with "No articles found". *)
C10_FailuresDoNotAbort ==
    /\ m_pc # "aborted"
    /\ [k \in DOMAIN m_returned |-> m_returned[k].scraper]
          = SubSeq(Scrapers, 1, Len(m_returned))
    /\ m_pc = "run" => Len(m_returned) = m_i - 1
    /\ RunEnded => Len(m_returned) = Len(Scrapers)
    /\ all_results = CollectedFrom(1)
    /\ RunEnded => (m_pc = "no_articles" <=> all_results = <<>>)

\* The first scraper raised, a later one returned records, and they were saved.
C10_Witness ==
    /\ Saved
    /\ m_returned[1].raised
    /\ \E k \in DOMAIN m_returned : ~m_returned[k].raised /\ m_returned[k].results # <<>>
    /\ df # <<>>

(***************************************************************************)
(* Properties of the archive functions, checked under SpecArchive.         *)
(***************************************************************************)
ArchiveReturned == ar_pc = "returned"

RecentReturned == ArchiveReturned /\ ar_op = "get_recent_wayback_urls"

\* The answers of the endpoint that have archived_snapshots.closest.available
\* true and name the snapshot.
AvailableAnswers(url) ==
    {ApiJson(Closest(TRUE, prefix \o url)) : prefix \in {ArchivePrefix, OlderArchivePrefix}}

SnapshotNamed(api) == api.data["archived_snapshots"]["closest"]["url"]

(* C13: neither archive function raises.  get_wayback_url returns the
   snapshot the endpoint names when closest.available is true, and None for
   every other outcome: a transport error, a body that is no JSON, JSON of
   another shape, closest absent or not available.  get_recent_wayback_urls
   returns a list, and every url in it was named by such an answer. *)
C13_ArchiveNeverRaises ==
    ArchiveReturned =>
        /\ ~ar_out.raised
        /\ ar_op = "get_wayback_url" =>
              IF ar_apis[1] \in AvailableAnswers(ar_url)
              THEN ar_out.value = SnapshotNamed(ar_apis[1])
              ELSE ar_out.value = NoneStr
        /\ ar_op = "get_recent_wayback_urls" =>
              \A k \in DOMAIN ar_out.value :
                  \E i \in DOMAIN ar_apis :
                      /\ ar_apis[i] \in AvailableAnswers(ar_url)
                      /\ ar_out.value[k] = SnapshotNamed(ar_apis[i])

\* The endpoint answered with archived_snapshots being a list: None, no exception.
C13_Witness ==
    /\ ArchiveReturned
    /\ ar_op = "get_wayback_url"
    /\ ar_apis[1] = ApiJson([archived_snapshots |-> JsonList])
    /\ ~ar_out.raised
    /\ ar_out.value = NoneStr

\* The lookups among the first k that name a snapshot.
Found(k) == {i \in 1..k : truthy(get_wayback_url(ar_url, ar_apis[i]))}

(* C14: get_recent_wayback_urls asks about the timestamps newest first,
   returns at most limit urls, no url twice, in the order of the lookups
   that named them, and makes no lookup once limit urls are collected. *)
C14_RecentDistinctNewestFirst ==
    RecentReturned =>
        LET urls == ar_out.value
            lookups == ar_out.lookups
            order == SelectSeq([i \in DOMAIN lookups |-> i],
                               LAMBDA i : i \in Found(Len(lookups)))
        IN /\ Len(urls) <= ar_limit
           /\ \A a, b \in DOMAIN urls : a # b => urls[a] # urls[b]
           /\ lookups = SubSeq(timestamps, 1, Len(lookups))
           /\ \A a, b \in DOMAIN lookups : a < b => lookups[a] > lookups[b]
           /\ urls = [k \in DOMAIN order |-> get_wayback_url(ar_url, ar_apis[order[k]])]
           /\ \A k \in DOMAIN lookups : Cardinality(Found(k - 1)) < ar_limit

(***************************************************************************)
(* Properties of process_article_data, checked under SpecProcess.          *)
(***************************************************************************)
\* process_article_data returned a record.
Processed == pr_pc = "returned" /\ pr_out # None

\* Every run of whitespace in s is one blank, and s neither begins nor ends with one.
Normalised(s) ==
    /\ \A i \in DOMAIN s : s[i] \in SpaceChars => s[i] = " "
    /\ \A i \in 1..(Len(s) - 1) : ~(s[i] \in SpaceChars /\ s[i + 1] \in SpaceChars)
    /\ s # <<>> => (s[1] \notin SpaceChars /\ s[Len(s)] \notin SpaceChars)

(* C16: in every record the aggregator keeps, title and content have every
   run of whitespace collapsed to one blank, neither begin nor end with
   whitespace, and hold no standalone "Advertisement" in any letter case. *)
C16_CleanedTextNormalised ==
    Processed =>
        \A field \in {"title", "content"} :
            /\ Normalised(pr_out[field])
            /\ ~re_search_word(Advertisement, lower(pr_out[field]))

(* C17: content_length is the length of the record's cleaned content. *)
C17_ContentLengthOfCleaned ==
    Processed => pr_out.content_length = Len(pr_out.content)

\* The marker a truncated content ends with.
TruncationMarker == <<".",".",".">>

EndsWith(s, suffix) ==
    /\ Len(s) >= Len(suffix)
    /\ SubSeq(s, Len(s) - Len(suffix) + 1, Len(s)) = suffix

(* C18: no record's content is longer than max_content_length plus the
   truncation marker, and a content that exceeded max_content_length ends
   with the marker. *)
C18_ContentTruncated ==
    Processed =>
        /\ Len(pr_out.content) <= max_content_length + Len(TruncationMarker)
        /\ Len(pr_raw.content) > max_content_length
              => EndsWith(pr_out.content, TruncationMarker)

(***************************************************************************)
(* Properties of the aggregation, checked under SpecAggregate.             *)
(***************************************************************************)
\* The rows without their scraped_at.
without_time(rows) ==
    [i \in DOMAIN rows |-> [k \in DOMAIN rows[i] \ {"scraped_at"} |-> rows[i][k]]]

(* C19: a second run of the aggregation gives the rows of the first run in
   the same order, scraped_at apart, be it run on the same candidates again
   or on the rows the first run gave. *)
C19_AggregationIdempotent ==
    ag_pc \in {"same", "fed_back"} => without_time(ag_out2) = without_time(ag_out1)

(***************************************************************************)
(* Properties of the crawlers, checked under SpecCrawl.                    *)
(***************************************************************************)
CrawlReturned == cr_pc = "returned"

\* The urls scrape() handed to extract_article_content, in order.
Extractions == SelectSeq(cr_out.trace, LAMBDA e : e.op = "extract_article_content")

\* The records scrape() emitted under the source label l.
EmittedUnder(l) == {i \in DOMAIN cr_out.results : cr_out.results[i].source = l}

(* C11: in one scrape() call of any crawler, the number of urls handed to
   extraction and the number of records emitted under any single source
   label never exceed max_articles_per_source. *)
C11_PerSourceCap ==
    CrawlReturned =>
        /\ Len(Extractions) <= config.max_articles_per_source
        /\ \A i \in DOMAIN cr_out.results :
               Cardinality(EmittedUnder(cr_out.results[i].source))
                   <= config.max_articles_per_source

\* Whether scrape() asked the archive for snapshots of the f-th feed.
SnapshotsRequested(f) ==
    \E i \in DOMAIN cr_out.trace :
        cr_out.trace[i] = Call("get_recent_wayback_urls", rss_feeds[f].rss_url)

\* The snapshots of the f-th feed that the archive named, in the order returned.
SnapshotsReturned(f) ==
    get_recent_wayback_urls(rss_feeds[f].rss_url, config.max_wayback_attempts,
                            cr_world.feeds[f].apis)

\* The urls of the snapshots of the f-th feed that scrape() fetched, in order.
SnapshotsFetched(f) ==
    LET fetches == SelectSeq(cr_out.trace,
                             LAMBDA e : /\ e.op = "session.get"
                                        /\ e.url \in {ArchivePrefix \o rss_feeds[f].rss_url,
                                                      OlderArchivePrefix \o rss_feeds[f].rss_url})
    IN [i \in DOMAIN fetches |-> fetches[i].url]

\* Whether the k-th snapshot of the f-th feed yields at least one entry.
SnapshotYields(f, k) ==
    /\ ~cr_world.feeds[f].snapshots[k].error
    /\ cr_world.feeds[f].snapshots[k].entries # <<>>

(* C15: RSSFeedScraper.scrape, for each feed, requests archival snapshots of
   the feed url only when the live feed yielded zero entries and
   use_wayback_fallback is true; it tries the snapshots in the order
   returned, at most max_wayback_attempts of them, and fetches no snapshot
   after the first one that yields at least one entry. *)
C15_RSSFallbackOrder ==
    (CrawlReturned /\ cr_scraper = "RSSFeedScraper") =>
        \A f \in DOMAIN rss_feeds :
            /\ SnapshotsRequested(f) =>
                   /\ cr_world.feeds[f].entries = <<>>
                   /\ config.use_wayback_fallback
                   /\ Len(SnapshotsFetched(f)) <= config.max_wayback_attempts
                   /\ Len(SnapshotsFetched(f)) <= Len(SnapshotsReturned(f))
                   /\ SnapshotsFetched(f)
                          = SubSeq(SnapshotsReturned(f), 1, Len(SnapshotsFetched(f)))
                   /\ \A k \in DOMAIN SnapshotsFetched(f) :
                          SnapshotYields(f, k) => Len(SnapshotsFetched(f)) = k
            /\ ~SnapshotsRequested(f) => SnapshotsFetched(f) = <<>>

\* A feed with two snapshots named whose first yields an entry: only it is fetched.
C15_Witness ==
    /\ CrawlReturned
    /\ cr_scraper = "RSSFeedScraper"
    /\ SnapshotsRequested(1)
    /\ Len(SnapshotsReturned(1)) = 2
    /\ SnapshotsReturned(1)[1] # SnapshotsReturned(1)[2]
    /\ SnapshotYields(1, 1)
    /\ Len(SnapshotsFetched(1)) = 1
    /\ Len(cr_out.results) = 1

\* Whether record i of the results was extracted from an archival snapshot.
FromSnapshot(i) ==
    \E j \in DOMAIN Extractions :
        /\ Extractions[j].url = cr_out.results[i].url
        /\ Extractions[j].from = "wayback"

\* The same sites with every archived page answering the live fetch instead.
LiveWorld ==
    [cr_world EXCEPT !.pages = [url \in DOMAIN @ |-> IF @[url] = "archived" THEN "live"
                                                     ELSE @[url]]]

(* C12: a result extracted from an archival snapshot after a failed live
   fetch is distinguishable from a live-fetch success: the record the
   crawler emits for it differs, in its fields or its source label, from
   every record the crawler emits when the same pages answer live. *)
C12_ArchivedDistinguishable ==
    CrawlReturned =>
        \A i \in DOMAIN cr_out.results :
            FromSnapshot(i) =>
                cr_out.results[i] \notin Range(scrape(cr_scraper, config, LiveWorld).results)

\* The events of a trace that fetch an article, a feed or a page.
FetchOps ==
    {"extract_article_content", "session.get", "feedparser.parse", "_find_article_urls",
     "_find_all_stranger_articles", "_find_chs_articles"}

\* Whether the trace has a pause of delay_between_requests between its i-th and j-th event.
PauseBetween(i, j) ==
    \E k \in (i + 1)..(j - 1) :
        cr_out.trace[k] = [op |-> "time.sleep", secs |-> delay_between_requests]

(* C20: within one crawler's scrape(), a pause of delay_between_requests
   occurs between every two consecutive fetches (extract_article_content
   calls or feed/page fetches): no two fetches happen without an intervening
   pause. *)
C20_PauseBetweenFetches ==
    CrawlReturned =>
        \A i \in DOMAIN cr_out.trace : \A j \in DOMAIN cr_out.trace :
            (i < j /\ cr_out.trace[i].op \in FetchOps /\ cr_out.trace[j].op \in FetchOps)
                => PauseBetween(i, j)

(***************************************************************************)
(* Further properties of the extractor, checked under SpecExtract.         *)
(***************************************************************************)
\* The indices of the selectors of the list that give a non-empty value.
Yielding(soup, selectors) ==
    {i \in Matching(soup, selectors) : ValueOf(selectors[i], soup[selectors[i]]) # <<>>}

(* C21: each field is decided by the first selector of its list that gives a
   non-empty value: a selector that matches only elements with blank text,
   or a meta element without content, is passed over for a later one that
   gives text; the field is empty only when no selector gives a non-empty
   value. *)
C21_FirstNonEmptySelectorWins ==
    DocumentFetched =>
        \A field \in {"title", "content", "date"} :
            LET selectors == ex_selectors[field]
                hit == Yielding(ExtractedSoup, selectors)
            IN IF hit = {}
               THEN ex_out.fields[field] = <<>>
               ELSE LET first == CHOOSE i \in hit : \A j \in hit : i <= j
                    IN ex_out.fields[field]
                         = ValueOf(selectors[first], ExtractedSoup[selectors[first]])

(***************************************************************************)
(* Further properties of the scorer, checked under SpecScorer.             *)
(***************************************************************************)
(* C22: check_relevance_weighted accepts every candidate: for every title
   and content, those with score 0 and no matches included, the flag it
   returns is true, while the matches and the score are still computed (the
   score is the weighted sum of the matches, an empty list scoring 0). *)
C22_EveryCandidateAccepted ==
    Scored =>
        /\ relevance.is_relevant = TRUE
        /\ 2 * relevance.score2
               = 2 * SumWeights2(SelectSeq(relevance.matches, LAMBDA m : ~IsTitleEntry(m)))
                 + SumWeights2([i \in DOMAIN SelectSeq(relevance.matches, IsTitleEntry) |->
                                   TermOf(SelectSeq(relevance.matches, IsTitleEntry)[i])])
        /\ (relevance.matches = <<>>) <=> (relevance.score2 = 0)

\* A candidate with no match and score 0 has been accepted.
C22_Witness ==
    /\ Scored
    /\ title # <<>>
    /\ relevance.matches = <<>>
    /\ relevance.score2 = 0
    /\ relevance.is_relevant

(***************************************************************************)
(* Properties of retry_on_failure, checked under SpecRetry.                *)
(***************************************************************************)
\* The positions in the trace of the invocations of func, in order.
InvocationAt == SelectSeq([i \in DOMAIN rt_trace |-> i], LAMBDA i : rt_trace[i].op = "func")

\* The k-th invocation of func (attempt k - 1).
Invocation(k) == rt_trace[InvocationAt[k]]

(* C23: with max_retries = n >= 1, func is invoked at most n times per call;
   every invocation but the last one made has raised, and was followed by a
   sleep of backoff_factor * 2^attempt before the next one, and there is no
   other sleep; the wrapper returns the value of the first invocation that
   does not raise, and after n failures it raises the n-th exception. *)
C23_RetryCapped ==
    (rt_pc # "idle" /\ max_retries >= 1) =>
        /\ Len(InvocationAt) <= max_retries
        /\ \A k \in DOMAIN InvocationAt :
              /\ InvocationAt[k] = 2 * k - 1
              /\ k < Len(InvocationAt) => Invocation(k).raised
              /\ (Invocation(k).raised /\ k < max_retries) =>
                    /\ Len(rt_trace) >= 2 * k
                    /\ rt_trace[2 * k]
                         = [op |-> "time.sleep", secs |-> backoff_factor * 2^(k - 1)]
              /\ ~(Invocation(k).raised /\ k < max_retries) => Len(rt_trace) = 2 * k - 1
        /\ rt_pc = "returned" =>
              /\ Len(InvocationAt) >= 1
              /\ ~Invocation(Len(InvocationAt)).raised
              /\ rt_out = [raised |-> FALSE, value |-> Invocation(Len(InvocationAt)).value]
        /\ rt_pc = "raised" =>
              /\ Len(InvocationAt) = max_retries
              /\ Invocation(max_retries).raised
              /\ rt_out = [raised |-> TRUE, value |-> Invocation(max_retries).value]
        /\ rt_pc = "loop" => attempt = Len(InvocationAt) /\ attempt < max_retries

\* Three attempts, the first two failing differently, the third returning.
C23_Witness ==
    /\ rt_pc = "returned"
    /\ max_retries = 3
    /\ backoff_factor = 2
    /\ Len(InvocationAt) = 3
    /\ Invocation(1).value # Invocation(2).value
    /\ rt_trace[2].secs = 2
    /\ rt_trace[4].secs = 4
    /\ rt_out.value = "ok"

\* Three attempts that all fail: the third exception is raised.
C23_WitnessRaised ==
    /\ rt_pc = "raised"
    /\ max_retries = 3
    /\ Len(InvocationAt) = 3
    /\ Invocation(2).value # Invocation(3).value
    /\ rt_out = [raised |-> TRUE, value |-> Invocation(3).value]

\* The terms of the "<term> (title)" entries of the matches returned.
TitleTerms ==
    [i \in DOMAIN SelectSeq(relevance.matches, IsTitleEntry) |->
        TermOf(SelectSeq(relevance.matches, IsTitleEntry)[i])]

(* C24: every "<term> (title)" entry of the matches comes with the plain
   entry "<term>" in the same list, so that the score is at least 1.5 times
   the sum of the tier weights of the terms matched in the title. *)
C24_TitleEntryHasPlainEntry ==
    Scored =>
        /\ \A i \in DOMAIN TitleTerms : TitleTerms[i] \in Range(relevance.matches)
        /\ 2 * relevance.score2 >= 3 * SumWeights2(TitleTerms)

(***************************************************************************)
(* Further properties of the crawlers, checked under SpecCrawl.            *)
(***************************************************************************)
\* Whether event e asks the archive for snapshots or uses a snapshot.
UsesArchive(e) ==
    \/ e.op = "get_recent_wayback_urls"
    \/ e.op = "extract_article_content" /\ e.from = "wayback"
    \/ /\ e.op = "session.get"
       /\ Len(e.url) >= Len(ArchivePrefix)
       /\ SubSeq(e.url, 1, Len(ArchivePrefix)) \in {ArchivePrefix, OlderArchivePrefix}

(* C25: when use_wayback_fallback is false, no crawler and no extraction
   asks the archive for a snapshot or fetches one: a failed live fetch gives
   no result. *)
C25_NoArchiveWhenDisabled ==
    (CrawlReturned /\ ~config.use_wayback_fallback) =>
        \A i \in DOMAIN cr_out.trace : ~UsesArchive(cr_out.trace[i])

====
